---- MODULE Spec2Model ----
(***************************************************************************)
(* cidr-to-regex: cidrToRegex(cidr) turns the text of an IPv4 or IPv6 CIDR *)
(* block into an anchored regular expression that matches the maximal      *)
(* textual form of exactly the addresses of the block.                     *)
(*                                                                         *)
(* Text is modelled by TLA+ strings (concatenation \o, slices SubSeq),     *)
(* JavaScript bigints by bit sequences (most significant bit first, no     *)
(* leading zero), JavaScript arrays by sequences.  Array and string        *)
(* indices of the source are 0-based; the sequences here are 1-based, so   *)
(* start[index] of the source is start[index + 1] here.                    *)
(***************************************************************************)
EXTENDS Integers, Sequences, FiniteSets, Bags, TLC

(***************************************************************************)
(* Strings: the String.prototype methods the source uses.                  *)
(***************************************************************************)
Min(S) == CHOOSE x \in S : \A y \in S : x <= y

Max(S) == CHOOSE x \in S : \A y \in S : x >= y

\* s.slice(i - 1, j): the characters i..j of s, "" when there are none
Sub(s, i, j) == IF i > j \/ i < 1 \/ j > Len(s) THEN "" ELSE SubSeq(s, i, j)

Ch(s, i) == Sub(s, i, i)

Slice(s, from) == Sub(s, from, Len(s))

\* position (1-based) of the first occurrence of sub in s at or after from,
\* 0 when there is none (indexOf gives -1)
IndexOfFrom(s, sub, from) ==
  LET hits == {i \in from..(Len(s) - Len(sub) + 1) : SubSeq(s, i, i + Len(sub) - 1) = sub}
  IN  IF hits = {} THEN 0 ELSE Min(hits)

Includes(s, sub) == IndexOfFrom(s, sub, 1) > 0

LastIndexOf(s, sub) ==
  LET hits == {i \in 1..(Len(s) - Len(sub) + 1) : SubSeq(s, i, i + Len(sub) - 1) = sub}
  IN  IF hits = {} THEN 0 ELSE Max(hits)

StartsWithAt(s, sub, i) == i + Len(sub) - 1 <= Len(s) /\ SubSeq(s, i, i + Len(sub) - 1) = sub

RECURSIVE Split(_, _)
Split(s, sep) ==
  LET i == IndexOfFrom(s, sep, 1)
  IN  IF i = 0 THEN <<s>>
      ELSE <<Sub(s, 1, i - 1)>> \o Split(Slice(s, i + Len(sep)), sep)

WhiteSpace == {" ", "\t", "\n", "\r"}

Trim(s) ==
  LET keep == {i \in 1..Len(s) : Ch(s, i) \notin WhiteSpace}
  IN  IF keep = {} THEN "" ELSE SubSeq(s, Min(keep), Max(keep))

RECURSIVE Repeat(_, _)
Repeat(s, n) == IF n <= 0 THEN "" ELSE s \o Repeat(s, n - 1)

PadStart(s, len, fill) == Repeat(fill, len - Len(s)) \o s

\* parts.join(sep) over parts[lo..hi], by halves
RECURSIVE JoinRange(_, _, _, _)
JoinRange(parts, sep, lo, hi) ==
  IF lo > hi THEN ""
  ELSE IF lo = hi THEN parts[lo]
  ELSE LET mid == (lo + hi) \div 2
       IN  JoinRange(parts, sep, lo, mid) \o sep \o JoinRange(parts, sep, mid + 1, hi)

Join(parts, sep) == JoinRange(parts, sep, 1, Len(parts))

UpperChars == "ABCDEFGHIJKLMNOPQRSTUVWXYZ"

LowerChars == "abcdefghijklmnopqrstuvwxyz"

LowerCh(c) ==
  LET k == IndexOfFrom(UpperChars, c, 1) IN IF Len(c) = 1 /\ k > 0 THEN Ch(LowerChars, k) ELSE c

UpperCh(c) ==
  LET k == IndexOfFrom(LowerChars, c, 1) IN IF Len(c) = 1 /\ k > 0 THEN Ch(UpperChars, k) ELSE c

RECURSIVE MapChars(_, _, _, _)
MapChars(s, lo, hi, upper) ==
  IF lo > hi THEN ""
  ELSE IF lo = hi THEN (IF upper THEN UpperCh(Ch(s, lo)) ELSE LowerCh(Ch(s, lo)))
  ELSE LET mid == (lo + hi) \div 2
       IN  MapChars(s, lo, mid, upper) \o MapChars(s, mid + 1, hi, upper)

ToLowerCase(s) == MapChars(s, 1, Len(s), FALSE)

ToUpperCase(s) == MapChars(s, 1, Len(s), TRUE)

DecDigits == "0123456789"

HEX_DIGITS == "0123456789abcdef"

IsDigit(c) == Len(c) = 1 /\ Includes(DecDigits, c)

\* /^\d+$/.test(s)
AllDigits(s) == Len(s) > 0 /\ \A i \in 1..Len(s) : IsDigit(Ch(s, i))

\* charCodeAt(i) - 48 for a decimal digit
DigitValue(c) == IndexOfFrom(DecDigits, c, 1) - 1

\* String(n), n >= 0
RECURSIVE ToDecimal(_)
ToDecimal(n) ==
  IF n < 10 THEN Ch(DecDigits, n + 1) ELSE ToDecimal(n \div 10) \o Ch(DecDigits, (n % 10) + 1)

\* n.toString(16), n >= 0
RECURSIVE ToHex(_)
ToHex(n) ==
  IF n < 16 THEN Ch(HEX_DIGITS, n + 1) ELSE ToHex(n \div 16) \o Ch(HEX_DIGITS, (n % 16) + 1)

\* Number.parseInt(s, 10) of a string of decimal digits
RECURSIVE ParseDecimal(_)
ParseDecimal(s) ==
  IF Len(s) = 0 THEN 0
  ELSE 10 * ParseDecimal(Sub(s, 1, Len(s) - 1)) + DigitValue(Ch(s, Len(s)))

\* Number.parseInt(s, 16) of a string of lowercase hex digits
RECURSIVE ParseHex(_)
ParseHex(s) ==
  IF Len(s) = 0 THEN 0
  ELSE 16 * ParseHex(Sub(s, 1, Len(s) - 1)) + (IndexOfFrom(HEX_DIGITS, Ch(s, Len(s)), 1) - 1)

(***************************************************************************)
(* Bigints: sequences of bits, most significant first, zero is <<>>.       *)
(***************************************************************************)
BigStrip(v) ==
  LET ones == {i \in 1..Len(v) : v[i] = 1}
  IN  IF ones = {} THEN <<>> ELSE SubSeq(v, Min(ones), Len(v))

\* bit k of v, k = 0 the least significant
BigBit(v, k) == IF k < Len(v) THEN v[Len(v) - k] ELSE 0

\* BigInt(n) for a number n >= 0
RECURSIVE BigInt(_)
BigInt(n) == IF n = 0 THEN <<>> ELSE Append(BigInt(n \div 2), n % 2)

\* Number(v) for a bigint that fits a number
RECURSIVE BigToNumber(_)
BigToNumber(v) ==
  IF Len(v) = 0 THEN 0 ELSE 2 * BigToNumber(SubSeq(v, 1, Len(v) - 1)) + v[Len(v)]

BigShl(v, n) == IF Len(v) = 0 THEN <<>> ELSE v \o [i \in 1..n |-> 0]

BigShr(v, n) == IF n >= Len(v) THEN <<>> ELSE SubSeq(v, 1, Len(v) - n)

BigAnd(a, b) ==
  LET w == IF Len(a) < Len(b) THEN Len(a) ELSE Len(b)
  IN  BigStrip([i \in 1..w |-> BigBit(a, w - i) * BigBit(b, w - i)])

BigOr(a, b) ==
  LET w == IF Len(a) > Len(b) THEN Len(a) ELSE Len(b)
  IN  BigStrip([i \in 1..w |-> IF BigBit(a, w - i) + BigBit(b, w - i) > 0 THEN 1 ELSE 0])

\* v - 1n for v > 0
BigDec(v) ==
  LET k == Max({i \in 1..Len(v) : v[i] = 1})
  IN  BigStrip([i \in 1..Len(v) |-> IF i < k THEN v[i] ELSE IF i = k THEN 0 ELSE 1])

\* v + 1n
BigInc(v) ==
  LET zeros == {i \in 1..Len(v) : v[i] = 0}
  IN  IF zeros = {} THEN <<1>> \o [i \in 1..Len(v) |-> 0]
      ELSE [i \in 1..Len(v) |-> IF i < Max(zeros) THEN v[i] ELSE IF i = Max(zeros) THEN 1 ELSE 0]

\* a & ~m
BigAndNot(a, m) ==
  BigStrip([i \in 1..Len(a) |-> BigBit(a, Len(a) - i) * (1 - BigBit(m, Len(a) - i))])

BigLess(a, b) ==
  IF Len(a) # Len(b) THEN Len(a) < Len(b)
  ELSE LET d == {i \in 1..Len(a) : a[i] # b[i]}
       IN  d # {} /\ a[Min(d)] < b[Min(d)]

BigLeq(a, b) == a = b \/ BigLess(a, b)

BigOne == <<1>>

(***************************************************************************)
(* Address parser.  A function of the source that returns T | null gives   *)
(* [ok |-> TRUE, value |-> T] or Null here; one that throws gives Thrown.  *)
(***************************************************************************)
IPV4_BITS == 32

IPV6_BITS == 128

Null == [ok |-> FALSE]

Some(v) == [ok |-> TRUE, value |-> v]

\* a variant whose Error carries no message
ThrownBare == [ok |-> FALSE, error |-> ""]

\* throw new Error("Invalid CIDR")
Thrown == [ok |-> FALSE, error |-> "Invalid CIDR"]

RECURSIVE parseByteFrom(_, _, _)
parseByteFrom(part, i, value) ==
  IF i > Len(part) THEN Some(value)
  ELSE IF ~IsDigit(Ch(part, i)) THEN Null
  ELSE LET next == value * 10 + DigitValue(Ch(part, i))
       IN  IF next > 255 THEN Null ELSE parseByteFrom(part, i + 1, next)

\* a variant that clamps a value above 255 to 255
parseByteClamped(part) ==
  IF ~AllDigits(part) THEN Null
  ELSE LET byte == parseByteFrom(part, 1, 0) IN IF byte.ok THEN byte ELSE Some(255)

parseByte(part) == IF Len(part) = 0 THEN Null ELSE parseByteFrom(part, 1, 0)

RECURSIVE parseIPv4From(_, _, _)
parseIPv4From(parts, i, value) ==
  IF i > Len(parts) THEN Some(value)
  ELSE IF ~AllDigits(parts[i]) THEN Null
  ELSE LET octet == parseByte(parts[i])
           next  == BigOr(BigShl(value, 8), BigInt(octet.value))
       IN  \* the last test is always true: it has the value computed at each step
           IF ~octet.ok THEN Null
           ELSE IF Len(next) >= 0 THEN parseIPv4From(parts, i + 1, next) ELSE Null

parseIPv4(text) ==
  LET parts == Split(text, ".")
  IN  IF Len(parts) # 4 THEN Null ELSE parseIPv4From(parts, 1, <<>>)

\* /^[0-9a-f]{1,4}$/.test(part)
IsHextetText(part) ==
  /\ Len(part) \in 1..4
  /\ \A i \in 1..Len(part) : Includes(HEX_DIGITS, Ch(part, i))

\* a variant that takes groups of up to five hex digits
parseHextetPartsLong(parts) ==
  IF \E i \in 1..Len(parts) :
       ~(Len(parts[i]) \in 1..5
         /\ \A k \in 1..Len(parts[i]) : Includes(HEX_DIGITS, Ch(parts[i], k))) THEN Null
  ELSE Some([i \in 1..Len(parts) |-> ParseHex(parts[i])])

parseHextetParts(parts) ==
  IF \E i \in 1..Len(parts) : ~IsHextetText(parts[i]) THEN Null
  ELSE Some([i \in 1..Len(parts) |-> ParseHex(parts[i])])

\* a variant that knows no dotted quad: every text with one is refused
expandEmbeddedIPv4Off(text) == IF Includes(text, ".") THEN "" ELSE text

expandEmbeddedIPv4(text) ==
  LET expand(lastColon, ipv4Part) ==
        LET rewrite(ipv4) ==
              IF ~ipv4.ok THEN ""
              ELSE Sub(text, 1, lastColon - 1)
                     \o ":" \o ToHex(BigToNumber(BigAnd(BigShr(ipv4.value, 16), BigInt(65535))))
                     \o ":" \o ToHex(BigToNumber(BigAnd(ipv4.value, BigInt(65535))))
        IN  IF lastColon = 0 THEN ""
            ELSE IF Len(ipv4Part) = 0 \/ Includes(ipv4Part, ":") THEN ""
            ELSE rewrite(parseIPv4(ipv4Part))
  IN  IF ~Includes(text, ".") THEN text
      ELSE expand(LastIndexOf(text, ":"), Slice(text, LastIndexOf(text, ":") + 1))

RECURSIVE hextetsToBig(_, _, _)
hextetsToBig(hextets, i, value) ==
  IF i > Len(hextets) THEN value
  ELSE LET next == BigOr(BigShl(value, 16), BigInt(hextets[i]))
       IN  \* the test is always true: it has the value computed at each step
           IF Len(next) >= 0 THEN hextetsToBig(hextets, i + 1, next) ELSE next

parseIPv6(text) ==
  LET parseNormalized(normalized) ==
        LET halves     == Split(normalized, "::")
            doubleColonCount == Len(halves) - 1
            hasCompression == Includes(normalized, "::")
            leftRaw    == IF hasCompression THEN halves[1] ELSE normalized
            rightRaw   == IF hasCompression THEN halves[2] ELSE ""
            leftParts  == IF Len(leftRaw) = 0 THEN <<>> ELSE Split(leftRaw, ":")
            rightParts == IF hasCompression /\ Len(rightRaw) > 0 THEN Split(rightRaw, ":")
                          ELSE <<>>
            assemble(parsedLeft, parsedRight) ==
              LET fixedCount == Len(parsedLeft.value) + Len(parsedRight.value)
                  missing    == 8 - fixedCount
                  hextets    == IF hasCompression
                                THEN parsedLeft.value \o [i \in 1..missing |-> 0]
                                       \o parsedRight.value
                                ELSE parsedLeft.value
              IN  IF ~parsedLeft.ok \/ ~parsedRight.ok THEN Null
                  ELSE IF hasCompression /\ fixedCount >= 8 THEN Null
                  ELSE IF ~hasCompression /\ Len(parsedLeft.value) # 8 THEN Null
                  ELSE IF Len(hextets) # 8 THEN Null
                  ELSE Some(hextetsToBig(hextets, 1, <<>>))
            parseParts(left, right) ==
              IF (\E i \in 1..Len(left) : Len(left[i]) = 0)
                 \/ (\E i \in 1..Len(right) : Len(right[i]) = 0) THEN Null
              ELSE assemble(parseHextetParts(left), parseHextetParts(right))
        IN  IF Len(normalized) = 0 THEN Null
            ELSE IF doubleColonCount > 1 THEN Null
            ELSE parseParts(leftParts, rightParts)
  IN  parseNormalized(expandEmbeddedIPv4(ToLowerCase(text)))

\* Number.parseInt(text, 10) of a text of decimal digits.  The result is a
\* double: it never wraps, and a value too large for a double is Infinity,
\* which parseCidr rejects as it rejects every value above the widths.  The
\* value is kept exact up to 999 and is 1000 for everything larger.
RECURSIVE parseIntFrom(_, _, _)
parseIntFrom(text, i, value) ==
  IF i > Len(text) \/ value >= 1000 THEN value
  ELSE parseIntFrom(text, i + 1, Min({1000, value * 10 + DigitValue(Ch(text, i))}))

parseInt(text) == parseIntFrom(text, 1, 0)

\* a variant that clamps the prefix to the width of the family
parseCidrClamped(input) ==
  LET parsed(family, bits, prefix, address) ==
        IF ~address.ok THEN Thrown
        ELSE [ok |-> TRUE, family |-> family, address |-> address.value,
              prefix |-> Min({prefix, bits})]
      parseParts(addressText, prefixText) ==
        IF Len(addressText) = 0 \/ ~AllDigits(prefixText) THEN Thrown
        ELSE IF Includes(addressText, ":")
             THEN parsed("ipv6", IPV6_BITS, parseInt(prefixText), parseIPv6(addressText))
        ELSE parsed("ipv4", IPV4_BITS, parseInt(prefixText), parseIPv4(addressText))
      splitParts(parts) == IF Len(parts) # 2 THEN Thrown ELSE parseParts(parts[1], parts[2])
  IN  splitParts(Split(Trim(input), "/"))

parseCidr(input) ==
  LET parsed(family, bits, prefix, address) ==
        IF prefix < 0 \/ prefix > bits THEN Thrown
        ELSE IF ~address.ok THEN Thrown
        ELSE [ok |-> TRUE, family |-> family, address |-> address.value, prefix |-> prefix]
      parseParts(addressText, prefixText) ==
        IF Len(addressText) = 0 \/ ~AllDigits(prefixText) THEN Thrown
        ELSE IF Includes(addressText, ":")
             THEN parsed("ipv6", IPV6_BITS, parseInt(prefixText), parseIPv6(addressText))
        ELSE parsed("ipv4", IPV4_BITS, parseInt(prefixText), parseIPv4(addressText))
      splitParts(parts) == IF Len(parts) # 2 THEN Thrown ELSE parseParts(parts[1], parts[2])
  IN  splitParts(Split(Trim(input), "/"))

(***************************************************************************)
(* Range normalizer and the segment vectors of its two ends.               *)
(***************************************************************************)
\* a variant that sets the host bits but does not clear them first
normalizeRangeFromValue(value, bits, prefix) ==
  LET hostBits == bits - prefix
      hostMask == IF hostBits = 0 THEN <<>> ELSE BigDec(BigShl(BigOne, hostBits))
  IN  <<value, BigOr(value, hostMask)>>

\* a variant whose host mask is one bit too wide
normalizeRangeWideHost(value, bits, prefix) ==
  LET hostBits   == bits - prefix
      prefixMask == IF prefix = 0 THEN <<>>
                    ELSE BigShl(BigDec(BigShl(BigOne, prefix)), hostBits)
      hostMask   == BigDec(BigShl(BigOne, hostBits + 1))
      start      == BigAnd(value, prefixMask)
      end        == BigAnd(BigOr(start, hostMask), BigDec(BigShl(BigOne, bits)))
  IN  <<start, end>>

\* a variant that shifts 32-bit numbers, the shift count taken modulo 32
normalizeRangeShift32(value, bits, prefix) ==
  LET hostBits   == bits - prefix
      prefixMask == IF prefix = 0 THEN <<>>
                    ELSE BigShl(BigDec(BigShl(BigOne, prefix)), hostBits)
      hostMask   == IF hostBits % 32 = 0 THEN <<>> ELSE BigDec(BigShl(BigOne, hostBits % 32))
      start      == BigAnd(value, prefixMask)
      end        == BigOr(start, hostMask)
  IN  <<start, end>>

normalizeRange(value, bits, prefix) ==
  LET hostBits   == bits - prefix
      prefixMask == IF prefix = 0 THEN <<>>
                    ELSE BigShl(BigDec(BigShl(BigOne, prefix)), hostBits)
      hostMask   == IF hostBits = 0 THEN <<>> ELSE BigDec(BigShl(BigOne, hostBits))
      start      == BigAnd(value, prefixMask)
      end        == BigOr(start, hostMask)
  IN  <<start, end>>

ipv4ToOctets(value) ==
  << BigToNumber(BigAnd(BigShr(value, 24), BigInt(255))),
     BigToNumber(BigAnd(BigShr(value, 16), BigInt(255))),
     BigToNumber(BigAnd(BigShr(value, 8), BigInt(255))),
     BigToNumber(BigAnd(value, BigInt(255))) >>

ipv6ToHextets(value) ==
  [i \in 1..8 |-> BigToNumber(BigAnd(BigShr(value, (8 - i) * 16), BigInt(65535)))]

(***************************************************************************)
(* Digit-range compiler.                                                   *)
(***************************************************************************)
\* a variant that takes up to two zeros before an octet
IPV4_PADDED_OCTET == "(?:0?0?[0-9]|0?[1-9][0-9]|1[0-9]{2}|2[0-4][0-9]|25[0-5])"

IPV4_ANY_OCTET == "(?:0|[1-9][0-9]?|1[0-9]{2}|2[0-4][0-9]|25[0-5])"

\* a variant that takes one to four hex digits
IPV6_SHORT_HEXTET == "[0-9a-f][0-9a-f]?[0-9a-f]?[0-9a-f]?"

IPV6_ANY_HEXTET == "[0-9a-f]{4}"

\* the elements of items[lo..hi] in order, each kept at its first occurrence
RECURSIVE UniqueRange(_, _, _)
UniqueRange(items, lo, hi) ==
  IF lo > hi THEN <<>>
  ELSE IF lo = hi THEN <<items[lo]>>
  ELSE LET mid   == (lo + hi) \div 2
           left  == UniqueRange(items, lo, mid)
           right == UniqueRange(items, mid + 1, hi)
           seen  == {left[i] : i \in 1..Len(left)}
       IN  left \o SelectSeq(right, LAMBDA x : x \notin seen)

uniquePatterns(parts) == UniqueRange(parts, 1, Len(parts))

orPattern(parts) ==
  LET unique == uniquePatterns(parts)
  IN  IF Len(unique) = 0 THEN "(?!)"
      ELSE IF Len(unique) = 1 THEN unique[1]
      ELSE "(?:" \o Join(unique, "|") \o ")"

octetValuePattern(value) == ToDecimal(value)

\* a variant that leaves out the last value of the range
octetRangePatternShort(start, end) ==
  IF start = 0 /\ end = 255 THEN IPV4_ANY_OCTET
  ELSE orPattern([k \in 1..(end - start) |-> octetValuePattern(start + k - 1)])

octetRangePattern(start, end) ==
  IF start = 0 /\ end = 255 THEN IPV4_ANY_OCTET
  ELSE orPattern([k \in 1..(end - start + 1) |-> octetValuePattern(start + k - 1)])

hexValue(char) == IndexOfFrom(HEX_DIGITS, char, 1) - 1

hexWildcard(length) ==
  IF length <= 0 THEN ""
  ELSE IF length = 1 THEN "[0-9a-f]"
  ELSE "[0-9a-f]{" \o ToDecimal(length) \o "}"

\* the pieces the while loop of hexDigitRange pushes from current on, joined
RECURSIVE hexDigitRangeFrom(_, _)
hexDigitRangeFrom(current, end) ==
  IF current > end THEN ""
  ELSE LET segmentEnd == IF current <= 9 THEN (IF end < 9 THEN end ELSE 9)
                         ELSE (IF end < 15 THEN end ELSE 15)
           piece == IF current = segmentEnd THEN Ch(HEX_DIGITS, current + 1)
                    ELSE Ch(HEX_DIGITS, current + 1) \o "-" \o Ch(HEX_DIGITS, segmentEnd + 1)
       IN  piece \o hexDigitRangeFrom(segmentEnd + 1, end)

\* a variant that leaves the last digit of the range out
hexDigitRangeOpen(start, end) ==
  IF start = end THEN Ch(HEX_DIGITS, start + 1)
  ELSE "[" \o hexDigitRangeFrom(start, end - 1) \o "]"

hexDigitRange(start, end) ==
  IF start = end THEN Ch(HEX_DIGITS, start + 1)
  ELSE "[" \o hexDigitRangeFrom(start, end) \o "]"

RECURSIVE hexRangeParts(_, _)
hexRangeParts(low, high) ==
  LET length      == Len(low)
      same        == {i \in 1..length : Ch(low, i) = Ch(high, i)}
      \* number of leading positions where low and high agree
      splitIndex  == IF \A i \in 1..length : i \in same THEN length
                     ELSE Min({i \in 1..length : i \notin same}) - 1
      prefix      == Sub(low, 1, splitIndex)
      lowDigit    == hexValue(Ch(low, splitIndex + 1))
      highDigit   == hexValue(Ch(high, splitIndex + 1))
      suffixLength == length - splitIndex - 1
      middleGroup == IF lowDigit + 1 <= highDigit - 1
                     THEN << prefix \o hexDigitRange(lowDigit + 1, highDigit - 1)
                                    \o hexWildcard(suffixLength) >>
                     ELSE <<>>
      \* the test is always true: it has lowerParts and upperParts computed
      \* before the groups are made of them
      groups(lowerParts, upperParts) ==
        IF Len(lowerParts) >= 0 /\ Len(upperParts) >= 0
        THEN uniquePatterns(
               [i \in 1..Len(lowerParts) |->
                  prefix \o hexDigitRange(lowDigit, lowDigit) \o lowerParts[i]]
               \o middleGroup
               \o [i \in 1..Len(upperParts) |->
                     prefix \o hexDigitRange(highDigit, highDigit) \o upperParts[i]])
        ELSE <<>>
  IN  \* the early returns of the source; at most one guard holds
      CASE Len(low) # Len(high) -> <<>>
        [] Len(low) = Len(high) /\ low = high -> <<low>>
        [] low = Repeat("0", length) /\ high = Repeat("f", length) /\ low # high
             -> <<hexWildcard(length)>>
        [] Len(low) = Len(high) /\ low # high /\ splitIndex = length -> <<low>>
        [] OTHER ->
             groups(hexRangeParts(Slice(low, splitIndex + 2), Repeat("f", suffixLength)),
                    hexRangeParts(Repeat("0", suffixLength), Slice(high, splitIndex + 2)))

\* whether hexRangeParts(low, high) ends in the throw of hexValue: a call, or
\* one of the calls it makes, hands hexValue a character that is no hex digit
RECURSIVE hexRangeThrows(_, _)
hexRangeThrows(low, high) ==
  LET length     == Len(low)
      differ     == {i \in 1..length : Ch(low, i) # Ch(high, i)}
      splitIndex == IF differ = {} THEN length ELSE Min(differ) - 1
      suffixLength == length - splitIndex - 1
  IN  CASE Len(low) # Len(high) \/ low = high -> FALSE
        [] Len(low) = Len(high) /\ low # high
             /\ low = Repeat("0", length) /\ high = Repeat("f", length) -> FALSE
        [] OTHER ->
             \/ hexValue(Ch(low, splitIndex + 1)) < 0
             \/ hexValue(Ch(high, splitIndex + 1)) < 0
             \/ hexRangeThrows(Slice(low, splitIndex + 2), Repeat("f", suffixLength))
             \/ hexRangeThrows(Repeat("0", suffixLength), Slice(high, splitIndex + 2))

\* the levels hexRangeParts(low, high) descends: the calls below it that are
\* inside one another
RECURSIVE hexRangeDepth(_, _)
hexRangeDepth(low, high) ==
  LET length     == Len(low)
      differ     == {i \in 1..length : Ch(low, i) # Ch(high, i)}
      splitIndex == IF differ = {} THEN length ELSE Min(differ) - 1
      suffixLength == length - splitIndex - 1
  IN  CASE Len(low) # Len(high) \/ low = high -> 0
        [] Len(low) = Len(high) /\ low # high
             /\ low = Repeat("0", length) /\ high = Repeat("f", length) -> 0
        [] OTHER ->
             1 + Max({ hexRangeDepth(Slice(low, splitIndex + 2), Repeat("f", suffixLength)),
                       hexRangeDepth(Repeat("0", suffixLength), Slice(high, splitIndex + 2)) })

\* a variant whose key leaves the end of the range out
hextetRangeKeyStart(start, end) == ToDecimal(start)

\* hextetRangeCache is a Map from the key `${start}-${end}` to the pattern;
\* here a function whose domain is the set of keys present
hextetRangeKey(start, end) == ToDecimal(start) \o "-" \o ToDecimal(end)

\* the pattern hextetRangePattern computes on a cache miss
hextetRangeCompute(start, end) ==
  LET \* the test is always true: it has the parts computed before they are joined
      joined(parts) == IF Len(parts) >= 0 THEN orPattern(parts) ELSE ""
  IN  IF start = 0 /\ end = 65535 THEN IPV6_ANY_HEXTET
      ELSE IF start = end THEN PadStart(ToHex(start), 4, "0")
      ELSE joined(hexRangeParts(PadStart(ToHex(start), 4, "0"), PadStart(ToHex(end), 4, "0")))

\* whether hextetRangePattern(start, end) ends in the throw of hexValue on a
\* cache miss
hextetRangeThrows(start, end) ==
  /\ ~(start = 0 /\ end = 65535)
  /\ start # end
  /\ hexRangeThrows(PadStart(ToHex(start), 4, "0"), PadStart(ToHex(end), 4, "0"))

\* a variant whose cache keeps the last pattern only
hextetRangePatternLast(start, end, cache) ==
  LET lookup(key) ==
        LET store(pattern) == [pattern |-> pattern, cache |-> [k \in {key} |-> pattern]]
        IN  IF key \in DOMAIN cache /\ Len(cache[key]) > 0
            THEN [pattern |-> cache[key], cache |-> cache]
            ELSE store(hextetRangeCompute(start, end))
  IN  lookup(hextetRangeKey(start, end))

\* returns the pattern and the cache as the call leaves it
hextetRangePattern(start, end, cache) ==
  LET lookup(key) ==
        LET store(pattern) ==
              [pattern |-> pattern,
               cache |-> [k \in DOMAIN cache \cup {key} |->
                            IF k = key THEN pattern ELSE cache[k]]]
        IN  IF key \in DOMAIN cache /\ Len(cache[key]) > 0
            THEN [pattern |-> cache[key], cache |-> cache]
            ELSE store(hextetRangeCompute(start, end))
  IN  lookup(hextetRangeKey(start, end))

(***************************************************************************)
(* Segment pattern builder.  index is the 0-based segment index.           *)
(***************************************************************************)
\* suffixes.map(...); SubSeq has the array built when the call returns
combineWithSuffix(head, suffixes, separator) ==
  SubSeq([i \in 1..Len(suffixes) |->
            IF Len(suffixes[i]) = 0 THEN head ELSE head \o separator \o suffixes[i]],
         1, Len(suffixes))

isFullRange(start, end, fromIndex, minValue, maxValue) ==
  \A i \in (fromIndex + 1)..Len(start) : start[i] = minValue /\ end[i] = maxValue

ipv4AnySuffix(count) ==
  IF count <= 0 THEN "" ELSE Join([i \in 1..count |-> IPV4_ANY_OCTET], "\\.")

ipv6AnySuffix(count) ==
  IF count <= 0 THEN "" ELSE Join([i \in 1..count |-> IPV6_ANY_HEXTET], ":")

\* a variant that leaves the rest of the vector as it is
boundaryVectorKeep(v, index, value, fill) ==
  [i \in 1..Len(v) |-> IF i - 1 = index THEN value ELSE v[i]]

\* vector with [0, index) from v, position index set to value, the rest to fill
boundaryVector(v, index, value, fill) ==
  [i \in 1..Len(v) |-> IF i - 1 < index THEN v[i] ELSE IF i - 1 = index THEN value ELSE fill]

RECURSIVE buildIPv4Patterns(_, _, _)
buildIPv4Patterns(start, end, index) ==
  LET low       == start[index + 1]
      high      == end[index + 1]
      firstEnd  == boundaryVector(start, index, low, 255)
      lastStart == boundaryVector(end, index, high, 0)
      first     == combineWithSuffix(octetRangePattern(low, low),
                                     buildIPv4Patterns(start, firstEnd, index + 1), "\\.")
      suffix    == ipv4AnySuffix(4 - index - 1)
      middle    == octetRangePattern(low + 1, high - 1)
      mid       == IF low + 1 <= high - 1
                   THEN << IF Len(suffix) > 0 THEN middle \o "\\." \o suffix ELSE middle >>
                   ELSE <<>>
      last      == combineWithSuffix(octetRangePattern(high, high),
                                     buildIPv4Patterns(lastStart, end, index + 1), "\\.")
  IN  IF index = 4 THEN <<"">>
      ELSE IF isFullRange(start, end, index, 0, 255) THEN <<ipv4AnySuffix(4 - index)>>
      ELSE IF low = high
           THEN combineWithSuffix(octetRangePattern(low, high),
                                  buildIPv4Patterns(start, end, index + 1), "\\.")
      ELSE uniquePatterns(first \o mid \o last)

\* returns the patterns and the cache as the call leaves it; hextetRangePattern
\* is called in the order of the source: head before suffixes, low group,
\* middle group, high group
RECURSIVE buildIPv6Patterns(_, _, _, _)
buildIPv6Patterns(start, end, index, cache) ==
  LET low       == start[index + 1]
      high      == end[index + 1]
      firstEnd  == boundaryVector(start, index, low, 65535)
      lastStart == boundaryVector(end, index, high, 0)
      hasMiddle == low + 1 <= high - 1
      suffix    == ipv6AnySuffix(8 - index - 1)
      \* low = high: the head, then the suffixes
      oneRest(head, rest) ==
        [cache    |-> rest.cache,
         patterns |-> combineWithSuffix(head.pattern, rest.patterns, ":")]
      \* the tests on head.pattern are always true: they have the head computed
      \* before the suffixes, as the source does
      oneHead(head) ==
        IF Len(head.pattern) >= 0
        THEN oneRest(head, buildIPv6Patterns(start, end, index + 1, head.cache))
        ELSE head
      \* low < high: the low group, the middle group, the high group
      highRest(lowHead, lowRest, mid, highHead, rest) ==
        [cache    |-> rest.cache,
         patterns |-> uniquePatterns(combineWithSuffix(lowHead.pattern, lowRest.patterns, ":")
                                       \o mid
                                       \o combineWithSuffix(highHead.pattern, rest.patterns, ":"))]
      highHead(lowHead, lowRest, mid, head) ==
        IF Len(head.pattern) >= 0
        THEN highRest(lowHead, lowRest, mid, head,
                      buildIPv6Patterns(lastStart, end, index + 1, head.cache))
        ELSE head
      middle(lowHead, lowRest, mid) ==
        IF Len(mid.pattern) >= 0
        THEN highHead(lowHead, lowRest,
                      IF ~hasMiddle THEN <<>>
                      ELSE IF Len(suffix) > 0 THEN << mid.pattern \o ":" \o suffix >>
                      ELSE << mid.pattern >>,
                      hextetRangePattern(high, high, mid.cache))
        ELSE mid
      lowRest(lowHead, rest) ==
        IF Len(rest.patterns) >= 0
        THEN middle(lowHead, rest,
                    IF hasMiddle THEN hextetRangePattern(low + 1, high - 1, rest.cache)
                    ELSE [pattern |-> "", cache |-> rest.cache])
        ELSE rest
      lowHead(head) ==
        IF Len(head.pattern) >= 0
        THEN lowRest(head, buildIPv6Patterns(start, firstEnd, index + 1, head.cache))
        ELSE head
      full == isFullRange(start, end, index, 0, 65535)
  IN  \* the early returns of the source; at most one guard holds
      CASE index = 8 -> [patterns |-> <<"">>, cache |-> cache]
        [] index # 8 /\ full -> [patterns |-> <<ipv6AnySuffix(8 - index)>>, cache |-> cache]
        [] index # 8 /\ ~full /\ low = high -> oneHead(hextetRangePattern(low, high, cache))
        [] OTHER -> lowHead(hextetRangePattern(low, low, cache))

\* the calls of hextetRangePattern that buildIPv6Patterns(start, end, index)
\* makes, as <<start, end>> in the order it makes them
RECURSIVE hextetRangeCalls(_, _, _)
hextetRangeCalls(start, end, index) ==
  LET low       == start[index + 1]
      high      == end[index + 1]
      firstEnd  == boundaryVector(start, index, low, 65535)
      lastStart == boundaryVector(end, index, high, 0)
      full      == isFullRange(start, end, index, 0, 65535)
  IN  CASE index = 8 -> <<>>
        [] index # 8 /\ full -> <<>>
        [] index # 8 /\ ~full /\ low = high ->
             << <<low, high>> >> \o hextetRangeCalls(start, end, index + 1)
        [] OTHER ->
             << <<low, low>> >> \o hextetRangeCalls(start, firstEnd, index + 1)
               \o (IF low + 1 <= high - 1 THEN << <<low + 1, high - 1>> >> ELSE <<>>)
               \o << <<high, high>> >> \o hextetRangeCalls(lastStart, end, index + 1)

\* the levels buildIPv4Patterns or buildIPv6Patterns (maxValue 255 or 65535)
\* descends from the call at index: the calls below it that are inside one
\* another
RECURSIVE segmentDepth(_, _, _, _)
segmentDepth(start, end, index, maxValue) ==
  LET low       == start[index + 1]
      high      == end[index + 1]
      firstEnd  == boundaryVector(start, index, low, maxValue)
      lastStart == boundaryVector(end, index, high, 0)
  IN  CASE index = Len(start) -> 0
        [] index # Len(start) /\ isFullRange(start, end, index, 0, maxValue) -> 0
        [] index # Len(start) /\ ~isFullRange(start, end, index, 0, maxValue) /\ low = high ->
             1 + segmentDepth(start, end, index + 1, maxValue)
        [] OTHER ->
             1 + Max({ segmentDepth(start, firstEnd, index + 1, maxValue),
                       segmentDepth(lastStart, end, index + 1, maxValue) })

(***************************************************************************)
(* Pattern minimizer.                                                      *)
(***************************************************************************)
\* a variant that splits at every separator, inside groups and classes too
splitStepFlat(pattern, separator, st, i) ==
  IF st.skip > 0 THEN [st EXCEPT !.skip = st.skip - 1]
  ELSE IF StartsWithAt(pattern, separator, i)
       THEN [st EXCEPT !.parts = Append(st.parts, Sub(pattern, st.start, i - 1)),
                       !.skip = Len(separator) - 1,
                       !.start = i + Len(separator)]
  ELSE st

\* one iteration of the for loop of splitPattern at the (1-based) position i;
\* skip counts the positions the loop jumps over after a separator
splitStep(pattern, separator, st, i) ==
  LET char == Ch(pattern, i)
  IN  IF st.skip > 0 THEN [st EXCEPT !.skip = st.skip - 1]
      ELSE IF ~st.escaped /\ ~st.inCharClass /\ st.parenDepth = 0
              /\ StartsWithAt(pattern, separator, i)
           THEN [st EXCEPT !.parts = Append(st.parts, Sub(pattern, st.start, i - 1)),
                           !.skip = Len(separator) - 1,
                           !.start = i + Len(separator)]
      ELSE IF st.escaped THEN [st EXCEPT !.escaped = FALSE]
      ELSE IF char = "\\" THEN [st EXCEPT !.escaped = TRUE]
      ELSE IF st.inCharClass
           THEN (IF char = "]" THEN [st EXCEPT !.inCharClass = FALSE] ELSE st)
      ELSE IF char = "[" THEN [st EXCEPT !.inCharClass = TRUE]
      ELSE IF char = "(" THEN [st EXCEPT !.parenDepth = st.parenDepth + 1]
      ELSE IF char = ")" /\ st.parenDepth > 0 THEN [st EXCEPT !.parenDepth = st.parenDepth - 1]
      ELSE st

\* the iterations lo..hi of the loop in order, by halves
RECURSIVE splitScan(_, _, _, _, _)
splitScan(pattern, separator, st, lo, hi) ==
  LET mid  == (lo + hi) \div 2
      left == splitScan(pattern, separator, st, lo, mid)
  IN  CASE lo > hi -> st
        [] lo = hi -> splitStep(pattern, separator, st, lo)
        \* the test on left is always true: it has the left half evaluated first
        [] lo < hi /\ left.skip >= 0 -> splitScan(pattern, separator, left, mid + 1, hi)

splitPattern(pattern, separator, segmentCount) ==
  LET init  == [parts |-> <<>>, start |-> 1, parenDepth |-> 0,
                inCharClass |-> FALSE, escaped |-> FALSE, skip |-> 0]
      final == splitScan(pattern, separator, init, 1, Len(pattern))
      parts == Append(final.parts, Slice(pattern, final.start))
  IN  IF Len(parts) # segmentCount
      THEN [ok |-> FALSE, error |-> "Internal pattern split error"]
      ELSE Some(parts)

\* a variant that compares the rows by their first fragment
uniquePatternRowsHead(rows) ==
  SelectSeq([i \in 1..Len(rows) |->
               IF \E j \in 1..(i - 1) : rows[j][1] = rows[i][1] THEN <<>> ELSE rows[i]],
            LAMBDA row : Len(row) > 0)

\* rows are compared by their fragments (the source compares them joined)
uniquePatternRows(rows) == UniqueRange(rows, 1, Len(rows))

\* a variant that keeps the first variant of a group and drops the others
mergeAtIndexFirst(rows, index) ==
  LET keyOf(row) == [row EXCEPT ![index + 1] = "<NUL>"]
      keys       == uniquePatterns([i \in 1..Len(rows) |-> keyOf(rows[i])])
      firstOf(key) == SelectSeq(rows, LAMBDA row : keyOf(row) = key)[1]
  IN  [rows    |-> uniquePatternRows([k \in 1..Len(keys) |-> firstOf(keys[k])]),
       changed |-> FALSE]

\* the body of the for loop of minimizePatternSet for one 0-based index: the
\* groups are keyed by the row with a placeholder at index (the source joins
\* it into one string), in the order their first rows come
mergeAtIndex(rows, index) ==
  LET keyOf(row) == [row EXCEPT ![index + 1] = "<NUL>"]
      keys       == uniquePatterns([i \in 1..Len(rows) |-> keyOf(rows[i])])
      variantsOf(key) ==
        LET members == SelectSeq(rows, LAMBDA row : keyOf(row) = key)
        IN  uniquePatterns([i \in 1..Len(members) |-> members[i][index + 1]])
      mergedOf(key) ==
        LET variants == variantsOf(key)
            template == SelectSeq(rows, LAMBDA row : keyOf(row) = key)[1]
        IN  [template EXCEPT ![index + 1] =
               IF Len(variants) = 1 THEN variants[1] ELSE orPattern(variants)]
      mergedRows == [k \in 1..Len(keys) |-> mergedOf(keys[k])]
  IN  [rows    |-> uniquePatternRows(mergedRows),
       changed |-> \E k \in 1..Len(keys) : Len(variantsOf(keys[k])) > 1]

\* the for loop from index on: the rows it leaves and whether it set changed
RECURSIVE mergePass(_, _, _, _)
mergePass(rows, index, segmentCount, changed) ==
  IF index >= segmentCount THEN [rows |-> rows, changed |-> changed]
  ELSE LET step == mergeAtIndex(rows, index)
       IN  \* the test is always true: it has the step evaluated before the next one
           IF Len(step.rows) >= 0
           THEN mergePass(step.rows, index + 1, segmentCount, changed \/ step.changed)
           ELSE step

\* the while (changed) loop
RECURSIVE mergeLoop(_, _)
mergeLoop(rows, segmentCount) ==
  LET pass == mergePass(rows, 0, segmentCount, FALSE)
  IN  IF pass.changed THEN mergeLoop(pass.rows, segmentCount) ELSE pass.rows

\* a variant that returns the patterns as they come
minimizePatternSetOff(patterns, separator, segmentCount) == Some(patterns)

minimizePatternSet(patterns, separator, segmentCount) ==
  LET \* patterns.map(...); SubSeq has the array built once
      split == SubSeq([i \in 1..Len(patterns) |->
                         splitPattern(patterns[i], separator, segmentCount)],
                      1, Len(patterns))
      rows  == uniquePatternRows([i \in 1..Len(patterns) |-> split[i].value])
      final == mergeLoop(rows, segmentCount)
  IN  IF Len(patterns) <= 1 THEN Some(patterns)
      ELSE IF \E i \in 1..Len(patterns) : ~split[i].ok
           THEN [ok |-> FALSE, error |-> "Internal pattern split error"]
      ELSE Some([i \in 1..Len(final) |-> Join(final[i], separator)])

(***************************************************************************)
(* RegExp objects of the runtime: new RegExp(source, flags) parses the     *)
(* source into a matcher, regex.test(text) runs it.  The syntax covered is *)
(* what the builders emit and a little more: literals, escapes, . ^ $,     *)
(* classes with ranges, groups (?: ) ( ) (?! ), alternation, ? and {n}.    *)
(* The matcher is run on sets of positions: from the positions a match may *)
(* have reached, the positions it may reach after the node.                *)
(***************************************************************************)
\* the characters of code 32..126 in code order; the backquote (code 96)
\* cannot be written in a string here and \f holds its place
AsciiChars ==
  " !\"#$%&'()*+,-./0123456789:;<=>?@ABCDEFGHIJKLMNOPQRSTUVWXYZ[\\]^_\fabcdefghijklmnopqrstuvwxyz{|}~"

CharCode(c) == IndexOfFrom(AsciiChars, c, 1) + 31

Indices(lo, hi) == [k \in 1..(hi - lo + 1) |-> lo + k - 1]

\* what the character at position i is in the syntax, and the group depth
\* it is at (a group's parentheses are at the depth of the group itself)
regexScanStep(src, st, i) ==
  LET c    == Ch(src, i)
      next == Ch(src, i + 1)
      put(kind, depth) == Append(st.ann, [kind |-> kind, depth |-> depth])
  IN  IF st.escaped THEN [st EXCEPT !.escaped = FALSE, !.ann = put("escaped", st.depth)]
      ELSE IF st.inClass
           THEN IF c = "]" THEN [st EXCEPT !.inClass = FALSE, !.ann = put("classEnd", st.depth)]
                ELSE [st EXCEPT !.ann = put("classItem", st.depth)]
      ELSE IF st.header > 0
           THEN [st EXCEPT !.header = st.header - 1, !.ann = put("header", st.depth)]
      ELSE IF st.inBrace
           THEN IF c = "}" THEN [st EXCEPT !.inBrace = FALSE, !.ann = put("braceEnd", st.depth)]
                ELSE [st EXCEPT !.ann = put("braceItem", st.depth)]
      ELSE IF c = "\\" THEN [st EXCEPT !.escaped = TRUE, !.ann = put("escape", st.depth)]
      ELSE IF c = "[" THEN [st EXCEPT !.inClass = TRUE, !.ann = put("classOpen", st.depth)]
      ELSE IF c = "("
           THEN [st EXCEPT !.depth = st.depth + 1,
                           !.header = IF next = "?" THEN 2 ELSE 0,
                           !.ann = put("groupOpen", st.depth)]
      ELSE IF c = ")" THEN [st EXCEPT !.depth = st.depth - 1, !.ann = put("groupEnd", st.depth - 1)]
      ELSE IF c = "|" THEN [st EXCEPT !.ann = put("bar", st.depth)]
      ELSE IF c = "?" THEN [st EXCEPT !.ann = put("optional", st.depth)]
      ELSE IF c = "{" /\ IsDigit(next)
           THEN [st EXCEPT !.inBrace = TRUE, !.ann = put("braceOpen", st.depth)]
      ELSE IF c = "^" THEN [st EXCEPT !.ann = put("bol", st.depth)]
      ELSE IF c = "$" THEN [st EXCEPT !.ann = put("eol", st.depth)]
      ELSE IF c = "." THEN [st EXCEPT !.ann = put("any", st.depth)]
      ELSE [st EXCEPT !.ann = put("literal", st.depth)]

RECURSIVE regexScan(_, _, _, _)
regexScan(src, st, lo, hi) ==
  LET mid  == (lo + hi) \div 2
      left == regexScan(src, st, lo, mid)
  IN  CASE lo > hi -> st
        [] lo = hi -> regexScanStep(src, st, lo)
        \* the test on left is always true: it has the left half evaluated first
        [] lo < hi /\ Len(left.ann) = mid -> regexScan(src, left, mid + 1, hi)

AtomStartKinds == {"literal", "escape", "classOpen", "groupOpen", "any", "bol", "eol"}

\* the characters a class body (the text between [ and ]) lists
RECURSIVE classMembers(_, _)
classMembers(body, i) ==
  IF i > Len(body) THEN {}
  ELSE IF i + 2 <= Len(body) /\ Ch(body, i + 1) = "-"
       THEN {Ch(AsciiChars, k - 31) : k \in CharCode(Ch(body, i))..CharCode(Ch(body, i + 2))}
            \cup classMembers(body, i + 3)
  ELSE {Ch(body, i)} \cup classMembers(body, i + 1)

RECURSIVE parseDisjunction(_, _, _, _)
RECURSIVE parseAlternative(_, _, _, _)
RECURSIVE parseTerm(_, _, _, _)
RECURSIVE parseAtom(_, _, _, _)

\* rx = [src, ann]; the nodes of src[lo..hi], which lies at group depth d
parseDisjunction(rx, lo, hi, d) ==
  LET bars == SelectSeq(Indices(lo, hi),
                        LAMBDA k : rx.ann[k].kind = "bar" /\ rx.ann[k].depth = d)
      n    == Len(bars)
      from(i) == IF i = 1 THEN lo ELSE bars[i - 1] + 1
      to(i)   == IF i = n + 1 THEN hi ELSE bars[i] - 1
  IN  IF n = 0 THEN parseAlternative(rx, lo, hi, d)
      ELSE [t |-> "alt", kids |-> [i \in 1..(n + 1) |-> parseAlternative(rx, from(i), to(i), d)]]

parseAlternative(rx, lo, hi, d) ==
  LET starts == SelectSeq(Indices(lo, hi),
                          LAMBDA k : rx.ann[k].depth = d /\ rx.ann[k].kind \in AtomStartKinds)
      n      == Len(starts)
      to(i)  == IF i = n THEN hi ELSE starts[i + 1] - 1
  IN  [t |-> "seq", kids |-> [i \in 1..n |-> parseTerm(rx, starts[i], to(i), d)]]

parseTerm(rx, lo, hi, d) ==
  LET last  == rx.ann[hi]
      opens == {k \in lo..hi : rx.ann[k].kind = "braceOpen" /\ rx.ann[k].depth = d}
      open  == Max(opens)
  IN  IF hi > lo /\ last.kind = "optional" /\ last.depth = d
      THEN [t |-> "opt", kid |-> parseAtom(rx, lo, hi - 1, d)]
      ELSE IF hi > lo /\ last.kind = "braceEnd" /\ last.depth = d
      THEN [t |-> "rep", n |-> ParseDecimal(Sub(rx.src, open + 1, hi - 1)),
            kid |-> parseAtom(rx, lo, open - 1, d)]
      ELSE parseAtom(rx, lo, hi, d)

parseAtom(rx, lo, hi, d) ==
  LET kind   == rx.ann[lo].kind
      header == Sub(rx.src, lo + 1, lo + 2)
      body   == Sub(rx.src, lo + 1, hi - 1)
  IN  IF kind = "groupOpen"
      THEN IF header = "?:" THEN parseDisjunction(rx, lo + 3, hi - 1, d + 1)
           ELSE IF header = "?!"
           THEN [t |-> "not", kid |-> parseDisjunction(rx, lo + 3, hi - 1, d + 1)]
           ELSE parseDisjunction(rx, lo + 1, hi - 1, d + 1)
      ELSE IF kind = "classOpen"
      THEN IF Ch(body, 1) = "^"
           THEN [t |-> "class", negated |-> TRUE, members |-> classMembers(body, 2)]
           ELSE [t |-> "class", negated |-> FALSE, members |-> classMembers(body, 1)]
      ELSE IF kind = "escape"
      THEN IF Ch(rx.src, lo + 1) = "d"
           THEN [t |-> "class", negated |-> FALSE, members |-> classMembers("0-9", 1)]
           ELSE [t |-> "char", c |-> Ch(rx.src, lo + 1)]
      ELSE IF kind \in {"any", "bol", "eol"} THEN [t |-> kind]
      ELSE [t |-> "char", c |-> Ch(rx.src, lo)]

RegExpParse(source) ==
  LET init == [depth |-> 0, inClass |-> FALSE, escaped |-> FALSE, header |-> 0,
               inBrace |-> FALSE, ann |-> <<>>]
      scan == regexScan(source, init, 1, Len(source))
  IN  parseDisjunction([src |-> source, ann |-> scan.ann], 1, Len(source), 0)

\* the test is always true: the source text is evaluated before it is parsed
NewRegExp(source, flags) ==
  IF Len(source) >= 0
  THEN [source |-> source, flags |-> flags, matcher |-> RegExpParse(source)]
  ELSE [source |-> source, flags |-> flags, matcher |-> [t |-> "none"]]

\* Canonicalize of the runtime under the i flag
SameChar(a, b, ignoreCase) == IF ignoreCase THEN UpperCh(a) = UpperCh(b) ELSE a = b

RECURSIVE Run(_, _, _, _)
RECURSIVE RunSeq(_, _, _, _, _, _)
RECURSIVE RunTimes(_, _, _, _, _)

\* the positions of text reached by matching node from a position of from
Run(node, text, ignoreCase, from) ==
  LET inside == {i \in from : i <= Len(text)}
  IN  IF node.t = "char"
      THEN {i + 1 : i \in {j \in inside : SameChar(Ch(text, j), node.c, ignoreCase)}}
      ELSE IF node.t = "any"
      THEN {i + 1 : i \in {j \in inside : Ch(text, j) \notin {"\n", "\r"}}}
      ELSE IF node.t = "class"
      THEN {i + 1 : i \in {j \in inside :
              (\E m \in node.members : SameChar(Ch(text, j), m, ignoreCase)) # node.negated}}
      ELSE IF node.t = "bol" THEN from \cap {1}
      ELSE IF node.t = "eol" THEN from \cap {Len(text) + 1}
      ELSE IF node.t = "seq" THEN RunSeq(node.kids, 1, Len(node.kids), text, ignoreCase, from)
      ELSE IF node.t = "alt"
      THEN UNION {Run(node.kids[k], text, ignoreCase, from) : k \in 1..Len(node.kids)}
      ELSE IF node.t = "opt" THEN from \cup Run(node.kid, text, ignoreCase, from)
      ELSE IF node.t = "rep" THEN RunTimes(node.kid, node.n, text, ignoreCase, from)
      ELSE IF node.t = "not" THEN {i \in from : Run(node.kid, text, ignoreCase, {i}) = {}}
      ELSE {}

RunSeq(kids, lo, hi, text, ignoreCase, from) ==
  IF lo > hi THEN from
  ELSE IF lo = hi THEN Run(kids[lo], text, ignoreCase, from)
  ELSE LET mid  == (lo + hi) \div 2
           left == RunSeq(kids, lo, mid, text, ignoreCase, from)
       IN  IF left = {} THEN {} ELSE RunSeq(kids, mid + 1, hi, text, ignoreCase, left)

RunTimes(kid, n, text, ignoreCase, from) ==
  IF n <= 0 \/ from = {} THEN from
  ELSE RunTimes(kid, n - 1, text, ignoreCase, Run(kid, text, ignoreCase, from))

\* regex.test(text) with lastIndex 0: a match may start anywhere
RegExpTest(regex, text) ==
  Run(regex.matcher, text, Includes(regex.flags, "i"), 1..(Len(text) + 1)) # {}

(***************************************************************************)
(* Regex assembler and the public operation.                               *)
(***************************************************************************)
\* a variant without the anchor at the end
buildRegexOpenEnd(patterns, flags) == NewRegExp("^(?:" \o orPattern(patterns) \o ")", flags)

\* a variant that drops the flags
buildRegexNoFlags(patterns, flags) == NewRegExp("^(?:" \o orPattern(patterns) \o ")$", "")

\* new RegExp(source, flags); flags is "" where the source passes undefined
buildRegex(patterns, flags) == NewRegExp("^(?:" \o orPattern(patterns) \o ")$", flags)

\* cidrToRegex(cidr) run against the cache `cache`: whether it returned, the
\* regex it returned with the pattern set before and after minimizePatternSet,
\* or the message of the Error it threw, and the cache as the call leaves it
cidrToRegex(cidr, cache) ==
  LET throw(message, cacheAfter, requests) ==
        [ok |-> FALSE, error |-> message, cache |-> cacheAfter, requests |-> requests]
      return(unique, patterns, flags, cacheAfter, requests) ==
        IF ~patterns.ok THEN throw(patterns.error, cacheAfter, requests)
        ELSE [ok |-> TRUE, regex |-> buildRegex(patterns.value, flags), cache |-> cacheAfter,
              built |-> unique, patterns |-> patterns.value, requests |-> requests]
      \* the tests on unique are always true: they have the patterns built before
      \* they are minimized
      minimizeIPv4(unique) ==
        IF Len(unique) >= 0
        THEN return(unique, minimizePatternSet(unique, "\\.", 4), "", cache, <<>>)
        ELSE Thrown
      compileIPv4(range) ==
        minimizeIPv4(uniquePatterns(
          buildIPv4Patterns(ipv4ToOctets(range[1]), ipv4ToOctets(range[2]), 0)))
      minimizeIPv6(unique, cacheAfter, requests) ==
        IF Len(unique) >= 0
        THEN return(unique, minimizePatternSet(unique, ":", 8), "i", cacheAfter, requests)
        ELSE Thrown
      \* the calls of hextetRangePattern that end in the throw of hexValue:
      \* those that miss the cache and hand hexValue a character that is no hex
      \* digit
      throwing(requests) ==
        { k \in 1..Len(requests) :
            /\ ~(/\ hextetRangeKey(requests[k][1], requests[k][2]) \in DOMAIN cache
                 /\ Len(cache[hextetRangeKey(requests[k][1], requests[k][2])]) > 0)
            /\ hextetRangeThrows(requests[k][1], requests[k][2]) }
      \* the Error of hexValue leaves every frame up to the caller; the cache
      \* keeps what the calls before it have stored
      builtIPv6(requests, result) ==
        IF throwing(requests) # {}
        THEN throw("Invalid hex digit",
                   [key \in DOMAIN cache
                             \cup { hextetRangeKey(requests[k][1], requests[k][2]) :
                                      k \in 1..(Min(throwing(requests)) - 1) } |->
                      result.cache[key]],
                   SubSeq(requests, 1, Min(throwing(requests))))
        ELSE minimizeIPv6(uniquePatterns(result.patterns), result.cache, requests)
      compileIPv6(range) ==
        builtIPv6(hextetRangeCalls(ipv6ToHextets(range[1]), ipv6ToHextets(range[2]), 0),
                  buildIPv6Patterns(ipv6ToHextets(range[1]), ipv6ToHextets(range[2]),
                                    0, cache))
      compile(parsed) ==
        IF ~parsed.ok THEN throw(parsed.error, cache, <<>>)
        ELSE IF parsed.family = "ipv4"
             THEN compileIPv4(normalizeRange(parsed.address, IPV4_BITS, parsed.prefix))
        ELSE compileIPv6(normalizeRange(parsed.address, IPV6_BITS, parsed.prefix))
  IN  compile(parseCidr(cidr))

(***************************************************************************)
(* The fuzz harness of the repository: how it writes addresses and CIDR    *)
(* texts, and the interval it expects.                                     *)
(***************************************************************************)
normalizedRange(value, bits, prefix) ==
  LET hostBits == bits - prefix
      hostMask == IF hostBits = 0 THEN <<>> ELSE BigDec(BigShl(BigOne, hostBits))
      start    == BigAndNot(value, hostMask)
      end      == BigOr(start, hostMask)
  IN  <<start, end>>

formatIPv4Canonical(value) ==
  Join(<< ToDecimal(BigToNumber(BigAnd(BigShr(value, 24), BigInt(255)))),
          ToDecimal(BigToNumber(BigAnd(BigShr(value, 16), BigInt(255)))),
          ToDecimal(BigToNumber(BigAnd(BigShr(value, 8), BigInt(255)))),
          ToDecimal(BigToNumber(BigAnd(value, BigInt(255)))) >>, ".")

\* widths[i] is the width 1 + rng.nextInt(3) drawn for part i
formatIPv4Padded(value, widths) ==
  LET parts == Split(formatIPv4Canonical(value), ".")
  IN  Join([i \in 1..Len(parts) |-> PadStart(parts[i], widths[i], "0")], ".")

formatIPv4Cidr(value, prefix, padded) ==
  IF ~padded THEN formatIPv4Canonical(value) \o "/" \o ToDecimal(prefix)
  ELSE formatIPv4Padded(value, <<3, 3, 3, 3>>) \o "/" \o ToDecimal(prefix)

isCanonicalIPv4(addr) ==
  LET parts == Split(addr, ".")
  IN  /\ Len(parts) = 4
      /\ \A i \in 1..4 :
           /\ AllDigits(parts[i])
           /\ ~(Len(parts[i]) > 1 /\ Ch(parts[i], 1) = "0")
           /\ ParseDecimal(parts[i]) <= 255

formatIPv6Parts(value) ==
  [i \in 1..8 |->
     PadStart(ToHex(BigToNumber(BigAnd(BigShr(value, (8 - i) * 16), BigInt(65535)))), 4, "0")]

formatIPv6Canonical(value) == Join(formatIPv6Parts(value), ":")

\* part.replace(/^0+([0-9a-f])/, "$1"): the leading zeros but the last digit
StripZeros(part) ==
  LET keep == {i \in 1..Len(part) : Ch(part, i) # "0"} \cup {Len(part)}
  IN  Slice(part, Min(keep))

formatIPv6Compressed(value) ==
  LET parts == formatIPv6Parts(value)
      zero(i) == i \in 1..8 /\ parts[i] = "0000"
      \* the runs of zero parts: first position and length
      runs  == {r \in (1..8) \X (1..8) :
                  /\ r[1] + r[2] - 1 <= 8
                  /\ \A i \in r[1]..(r[1] + r[2] - 1) : zero(i)
                  /\ ~zero(r[1] - 1) /\ ~zero(r[1] + r[2])}
      bestLen == IF runs = {} THEN 0 ELSE Max({r[2] : r \in runs})
      bestStart == Min({r[1] : r \in {q \in runs : q[2] = bestLen}})
      short == [i \in 1..8 |-> StripZeros(parts[i])]
      left  == JoinRange(short, ":", 1, bestStart - 1)
      right == JoinRange(short, ":", bestStart + bestLen, 8)
  IN  IF bestLen >= 2 THEN left \o "::" \o right ELSE Join(short, ":")

formatIPv6EmbeddedIPv4(value) ==
  LET canonical == formatIPv6Parts(value)
      high == ParseHex(canonical[7])
      low  == ParseHex(canonical[8])
      ipv4 == Join(<< ToDecimal((high \div 256) % 256), ToDecimal(high % 256),
                      ToDecimal((low \div 256) % 256), ToDecimal(low % 256) >>, ".")
  IN  JoinRange(canonical, ":", 1, 6) \o ":" \o ipv4

\* mode is the value rng.nextInt(4) drew
formatIPv6Cidr(value, prefix, mode) ==
  LET address == IF mode = 0 THEN formatIPv6Canonical(value)
                 ELSE IF mode = 1 THEN formatIPv6Compressed(value)
                 ELSE IF mode = 2 THEN ToUpperCase(formatIPv6Canonical(value))
                 ELSE formatIPv6EmbeddedIPv4(value)
  IN  address \o "/" \o ToDecimal(prefix)

(***************************************************************************)
(* State.  hextetRangeCache is the module-level Map of the source; the     *)
(* other variables are one use of the library: the test case given to      *)
(* cidrToRegex, how the call ended, the RegExp it returned or the message  *)
(* of the Error it threw, the pattern set the call handed to               *)
(* minimizePatternSet and the one it got back, and the last sample given   *)
(* to regex.test with its result.                                          *)
(***************************************************************************)
VARIABLES hextetRangeCache, case, outcome, regex, error, built, minimized, sample, matched,
          callers, options, interval, requested, minimizer

vars == <<hextetRangeCache, case, outcome, regex, error, built, minimized, sample, matched,
          callers, options, interval, requested, minimizer>>

\* requested is the set of the <<start, end>> that hextetRangePattern has been
\* called with since the module was loaded
NoRequests == {}

\* minimizer is a call of minimizePatternSet that is followed step by step:
\* where it stands (not called, in the for loop, returned), the separator and
\* segmentCount it was given, rows, index and changed of the source, the
\* number of rows when the pass of the while loop began, the passes done, the
\* addresses the rows of the call are tried on, and those of them that the
\* patterns given match
IdleMinimizer ==
  [pc |-> "idle", separator |-> "", segmentCount |-> 0, rows |-> <<>>, index |-> 0,
   changed |-> FALSE, before |-> 0, passes |-> 0, universe |-> {}, language |-> {}]

\* interval is the interval <<start, end>> of a stage that is run on its own:
\* the one normalizeRange returned, or the one the pattern builder was given
NoInterval == <<>>

\* options is the second argument the caller gave with the case, a field
\* being FALSE where it is false or left out
NoOptions == [anchored |-> FALSE, ignoreCase |-> FALSE, global |-> FALSE]

\* callers holds the calls in flight where several callers share the cache
\* and a call may be overtaken inside hextetRangePattern: for each caller the
\* text of its call, where it stands (before cache.get, before cache.set,
\* before the return, after it), the calls of hextetRangePattern it makes, the
\* patterns they have returned to it so far, and the regex it returned
Callers == {"first", "second"}

EmptyCache == [k \in {} |-> ""]

NoCase == [text |-> "", family |-> "none", raw |-> <<>>, prefix |-> 0]

NoRegex == [source |-> "", flags |-> "", matcher |-> [t |-> "none"]]

NoSample == [text |-> "", family |-> "none", value |-> <<>>]

IdleCaller ==
  [pc |-> "idle", text |-> "", requests |-> <<>>, got |-> <<>>, regex |-> NoRegex]

\* the bigint whose segments of `width` bits are parts
FromSegments(parts, width) ==
  BigStrip([k \in 1..(Len(parts) * width) |->
              (parts[((k - 1) \div width) + 1] \div (2 ^ (width - 1 - ((k - 1) % width)))) % 2])

BitsOf(family) == IF family = "ipv4" THEN IPV4_BITS ELSE IPV6_BITS

MaxValue(family) == [k \in 1..BitsOf(family) |-> 1]

(***************************************************************************)
(* Test cases and samples (bounded).  A case is a text given to            *)
(* cidrToRegex; the cases the harness writes from a value and a prefix     *)
(* carry them, the cases written by hand have family "text".               *)
(***************************************************************************)
\* how far beyond the two ends of the interval the samples reach
ProbeReach == 1

FuzzCase(text, family, raw, prefix) ==
  [text |-> text, family |-> family, raw |-> raw, prefix |-> prefix]

TextCase(text) == FuzzCase(text, "text", <<>>, 0)

FuzzValues4 ==
  { FromSegments(<<10, 0, 0, 1>>, 8), FromSegments(<<198, 51, 100, 23>>, 8),
    FromSegments(<<0, 0, 0, 0>>, 8), FromSegments(<<255, 255, 255, 255>>, 8) }

FuzzValues6 ==
  { FromSegments(<<8193, 3512, 0, 0, 0, 0, 0, 255>>, 16),
    FromSegments(<<65152, 0, 0, 0, 4660, 22136, 39612, 57072>>, 16) }

FuzzCases4 ==
  { FuzzCase(formatIPv4Cidr(FromSegments(<<10, 0, 0, 1>>, 8), p, FALSE), "ipv4",
             FromSegments(<<10, 0, 0, 1>>, 8), p) :
      p \in {0, 1, 7, 8, 9, 15, 16, 17, 22, 23, 24, 25, 30, 31, 32} }
  \cup
  { FuzzCase(formatIPv4Cidr(FromSegments(<<198, 51, 100, 23>>, 8), p, TRUE), "ipv4",
             FromSegments(<<198, 51, 100, 23>>, 8), p) :
      p \in {0, 4, 12, 20, 26, 29, 32} }
  \cup
  { FuzzCase(formatIPv4Cidr(v, p, p = 31), "ipv4", v, p) :
      v \in {FromSegments(<<0, 0, 0, 0>>, 8), FromSegments(<<255, 255, 255, 255>>, 8)},
      p \in {0, 1, 31, 32} }

FuzzCases6 ==
  { FuzzCase(formatIPv6Cidr(FromSegments(<<8193, 3512, 0, 0, 0, 0, 0, 255>>, 16), p, p % 4),
             "ipv6", FromSegments(<<8193, 3512, 0, 0, 0, 0, 0, 255>>, 16), p) :
      p \in {0, 1, 3, 4, 15, 16, 17, 29, 32, 33, 47, 48, 63, 64, 65, 96, 100, 112, 121,
             125, 126, 127, 128} }
  \cup
  { FuzzCase(formatIPv6Cidr(FromSegments(<<65152, 0, 0, 0, 4660, 22136, 39612, 57072>>, 16),
                            p, (p + 1) % 4),
             "ipv6", FromSegments(<<65152, 0, 0, 0, 4660, 22136, 39612, 57072>>, 16), p) :
      p \in {0, 10, 64, 77, 113, 128} }

FuzzCases == FuzzCases4 \cup FuzzCases6

RECURSIVE BigBelow(_, _)
BigBelow(v, n) == IF n = 0 \/ Len(v) = 0 THEN {} ELSE {BigDec(v)} \cup BigBelow(BigDec(v), n - 1)

RECURSIVE BigAbove(_, _, _)
BigAbove(v, n, max) == IF n = 0 \/ v = max THEN {} ELSE {BigInc(v)} \cup BigAbove(BigInc(v), n - 1, max)

\* the addresses sampled for a case: the ends of its interval, their
\* neighbours outside it, and the values of the other cases
SampleValues(c) ==
  LET range == normalizedRange(c.raw, BitsOf(c.family), c.prefix)
  IN  {range[1], range[2]}
        \cup BigBelow(range[1], ProbeReach)
        \cup BigAbove(range[2], ProbeReach, MaxValue(c.family))
        \cup (IF c.family = "ipv4" THEN FuzzValues4 ELSE FuzzValues6)

\* the widths formatIPv4Padded is given
PaddedWidths == { <<3, 3, 3, 3>>, <<2, 1, 3, 2>>, <<1, 1, 1, 1>> }

SampleTexts4(v) ==
  { formatIPv4Padded(v, w) : w \in PaddedWidths }
    \cup
  { formatIPv4Canonical(v),
    "x" \o formatIPv4Canonical(v), formatIPv4Canonical(v) \o "x",
    JoinRange(Split(formatIPv4Canonical(v), "."), ".", 1, 3),
    JoinRange(Split(formatIPv4Canonical(v), "."), ".", 1, 2) \o "."
      \o Split(formatIPv4Canonical(v), ".")[4] }

SampleTexts6(v) ==
  { formatIPv6Canonical(v), ToUpperCase(formatIPv6Canonical(v)),
    ToUpperCase(JoinRange(formatIPv6Parts(v), ":", 1, 4)) \o ":"
      \o JoinRange(formatIPv6Parts(v), ":", 5, 8),
    formatIPv6Compressed(v), Join([i \in 1..8 |-> StripZeros(formatIPv6Parts(v)[i])], ":"),
    "x" \o formatIPv6Canonical(v), formatIPv6Canonical(v) \o "x",
    JoinRange(formatIPv6Parts(v), ":", 1, 7) }

Samples(c) ==
  IF c.family = "ipv4"
  THEN UNION { { [text |-> s, family |-> "ipv4", value |-> v] : s \in SampleTexts4(v) } :
                 v \in SampleValues(c) }
  ELSE IF c.family = "ipv6"
  THEN UNION { { [text |-> s, family |-> "ipv6", value |-> v] : s \in SampleTexts6(v) } :
                 v \in SampleValues(c) }
  ELSE {}

\* texts of the wrong shape, and prefix parts of every kind
ShapeTexts ==
  { "", " ", "/", "10.0.0.0", "10.0.0.0/", "/24", "10.0.0.0/24/1", "10.0.0.0//24",
    "/10.0.0.0/24", "10.0.0.0/24/", "2001:db8::/32/1", "2001:db8::", "::/",
    "10.0.0.0/-1", "10.0.0.0/abc", "10.0.0.0/+8", "10.0.0.0/8.0", "10.0.0.0/8 8",
    "10.0.0.0/ 8", "10.0.0.0 /8", "10.0.0.0/0x8", "10.0.0.0/1e1", "10.0.0.0/8a",
    "::/-1", "::/abc", "2001:db8::/12a", "2001:db8::/ 32",
    "10.0.0.0/33", "10.0.0.0/128", "10.0.0.0/999", "10.0.0.0/1000", "10.0.0.0/4294967320",
    "2001:db8::/129", "2001:db8::/300", "::/18446744073709551744",
    " 10.0.0.0/8 ", "\t10.0.0.0/8\n", "10.0.0.0/008", "10.0.0.0/000000000032",
    "10.0.0.0/00", "::/0128", " 2001:db8::/32 ", "2001:db8::/0000" }

\* every prefix value up to the width of the family, and the next one
PrefixSweep ==
  { FuzzCase(formatIPv4Cidr(FromSegments(<<198, 51, 100, 23>>, 8), p, FALSE), "ipv4",
             FromSegments(<<198, 51, 100, 23>>, 8), p) : p \in 0..(IPV4_BITS + 1) }
  \cup
  { FuzzCase(formatIPv6Cidr(FromSegments(<<8193, 3512, 0, 0, 0, 0, 0, 255>>, 16), p, 0),
             "ipv6", FromSegments(<<8193, 3512, 0, 0, 0, 0, 0, 255>>, 16), p) :
      p \in 0..(IPV6_BITS + 1) }

\* the components put in the place of one component of 10.0.0.255
ByteTexts ==
  { "0", "7", "10", "99", "255", "256", "260", "300", "999", "2550", "010", "000", "007",
    "0255", "0256", "00000000010", "00000000300", "4294967306", "", "a", "1a", "a1", "-1",
    "+1", " 1", "1 ", "0x1", "1e1", "1,0" }

ReplaceAt(parts, i, x) == [k \in 1..Len(parts) |-> IF k = i THEN x ELSE parts[k]]

AddressTexts ==
  { Join(ReplaceAt(<<"10", "0", "0", "255">>, i, x), ".") \o "/24" :
      i \in 1..4, x \in ByteTexts }
  \cup
  { "10/24", "10.0/24", "10.0.0/24", "10.0.0.0.0/24", "10.0.0.255./24", ".10.0.0.255/24",
    "10..0.255/24", "10.0.0.255.1.2/8", "..../8", ".../8", "1.2.3.4/32", "010.000.000.255/24",
    "300.0.0.1/24", "10.0.256.1/24", "010.000.256.001/24", "10,0,0,255/24", "167772415/24" }

\* the groups put in the place of one group of 2001:db8:0:0:0:0:0:ff
GroupTexts ==
  { "0", "ff", "FFFF", "0000", "00000", "12345", "g", "", "a b", "-1", "1.2" }

\* address parts with a colon: one group replaced, and texts written by hand
\* around every rule of parseIPv6
IPv6AddressTexts ==
  { Join(ReplaceAt(<<"2001", "db8", "0", "0", "0", "0", "0", "ff">>, i, x), ":") :
      i \in 1..8, x \in GroupTexts }
  \cup
  { "::", "::1", "1::", "f::f", "2001:db8::ff", "2001:DB8::FF", "1:2:3:4:5:6:7:8",
    "2001:0db8:0000:0000:0000:0000:0000:00ff", "abcd:ef01:2345:6789:ABCD:EF01:2345:6789",
    "1:2:3:4:5:6:7::", "::2:3:4:5:6:7:8", "1::3:4:5:6:7:8", "1:2:3:4::6:7:8",
    "::ffff:192.0.2.1", "::192.0.2.1", "1:2:3:4:5:6:192.0.2.1", "64:ff9b::010.000.002.001",
    "::255.255.255.255", "1::0.0.0.0",
    ":", ":::", "::::", "1::2::3", "::1::", "1::2::", ":1", "1:", ":1:2:3:4:5:6:7",
    ":1:2:3:4:5:6:7:8", "1:2:3:4:5:6:7:", "1:2:3:4:5:6:7", "1:2:3:4:5:6:7:8:9",
    "1:2:3:4:5:6:7:8::", "::1:2:3:4:5:6:7:8", "1:2:3:4::5:6:7:8", "1:2:3:4:5::6:7:8:9",
    "12345::", "::12345", "00000::", "2001:db8::zzzz", "g::", "::g", "1:2:3:4:5:6:7:g",
    "1:2:3::4:", ":1::2", "1:::2", "::-1", "::+1", "::0x1", "::1 2", "1: 2::", "::1%1",
    "::1.2.3", "::1.2.3.4.5", "::256.1.1.1", "::1.2.3.a", "1.2.3.4::", "1.2.3.4:1::",
    "::1.2.3.4:1", "1:2:3:4:5:6:7:1.2.3.4", "1:2:3:4:5:1.2.3.4", "1:2:3:4:5:6:7:8:1.2.3.4",
    "::1.2.3.4.", "::.1.2.3.4", "1:2:3:4:5:6::1.2.3.4", "1:2:3:4:5::1.2.3.4" }

\* an address without a zero group, at every prefix length that ends in its
\* last two groups
HexSweep ==
  { TextCase("abcd:ef01:2345:6789:abcd:ef01:2345:6789/" \o ToDecimal(p)) :
      p \in 97..IPV6_BITS }

ParseCases ==
  { TextCase(t) : t \in ShapeTexts \cup AddressTexts }
    \cup { TextCase(t \o "/128") : t \in IPv6AddressTexts }
    \cup PrefixSweep \cup HexSweep

\* the addresses written in every form: one with a run of zero groups in the
\* middle, ::ff, the zero address, one without two zero groups in a row, and
\* one whose run of zero groups is at the end
FormValues6 ==
  { FromSegments(<<8193, 3512, 0, 0, 0, 0, 0, 255>>, 16),
    FromSegments(<<0, 0, 0, 0, 0, 0, 0, 255>>, 16),
    FromSegments(<<0, 0, 0, 0, 0, 0, 0, 0>>, 16),
    FromSegments(<<43981, 0, 4660, 0, 65535, 0, 49320, 513>>, 16),
    FromSegments(<<65152, 0, 0, 1, 0, 0, 0, 0>>, 16) }

\* the prefixes of the addresses other than the first
FormPrefixes == {0, 1, 15, 16, 17, 64, 96, 97, 111, 112, 113, 127, 128}

\* every form formatIPv6Cidr writes: of the first address at every prefix, of
\* the others at the prefixes above
FormCases ==
  { FuzzCase(formatIPv6Cidr(FromSegments(<<8193, 3512, 0, 0, 0, 0, 0, 255>>, 16), p, mode),
             "ipv6", FromSegments(<<8193, 3512, 0, 0, 0, 0, 0, 255>>, 16), p) :
      p \in 0..IPV6_BITS, mode \in 0..3 }
  \cup
  { FuzzCase(formatIPv6Cidr(v, p, mode), "ipv6", v, p) :
      v \in FormValues6, p \in FormPrefixes, mode \in 0..3 }

\* the case of the block of value at the prefix length, written as the
\* minimality tests write it: IPv4 canonical, IPv6 compressed
BlockCase(family, value, prefix) ==
  FuzzCase(IF family = "ipv4" THEN formatIPv4Cidr(value, prefix, FALSE)
           ELSE formatIPv6Cidr(value, prefix, 1),
           family, normalizedRange(value, BitsOf(family), prefix)[1], prefix)

\* the parent blocks: 192.0.2.0/30 and 2001:db8::/126 of the tests, and
\* blocks of other sizes and places
BlockCases ==
  { BlockCase(b[1], b[2], b[3]) :
      b \in ({"ipv4"} \X {FromSegments(<<192, 0, 2, 0>>, 8)} \X {0, 8, 23, 29, 30, 31})
            \cup
            ({"ipv4"} \X {FromSegments(<<198, 51, 100, 23>>, 8)} \X {12, 27})
            \cup
            ({"ipv6"} \X {FromSegments(<<8193, 3512, 0, 0, 0, 0, 0, 0>>, 16)}
                      \X {0, 33, 64, 112, 126, 127})
            \cup
            ({"ipv6"} \X {FromSegments(<<65152, 0, 0, 0, 4660, 22136, 39612, 57072>>, 16)}
                      \X {10, 77}) }

\* the blocks around a parent block c: its two children, the other half of
\* the enclosing block, and the enclosing block (the last two for a prefix
\* length of one and more)
ChildCases(c) ==
  { BlockCase(c.family, v, c.prefix + 1) :
      v \in { c.raw, BigOr(c.raw, BigShl(BigOne, BitsOf(c.family) - c.prefix - 1)) } }

SiblingCase(c) ==
  LET bit == BigShl(BigOne, BitsOf(c.family) - c.prefix)
  IN  BlockCase(c.family,
                IF BigAnd(c.raw, bit) = <<>> THEN BigOr(c.raw, bit) ELSE BigAndNot(c.raw, bit),
                c.prefix)

EnclosingCase(c) == BlockCase(c.family, c.raw, c.prefix - 1)

\* expandIPv4Forms and expandIPv6Forms, of the address of a value
expandForms(family, value) ==
  IF family = "ipv4"
  THEN { formatIPv4Canonical(value), formatIPv4Padded(value, <<3, 3, 3, 3>>) }
  ELSE { formatIPv6Canonical(value), ToUpperCase(formatIPv6Canonical(value)) }

\* the universe of a parent block: the ends of its children and of the other
\* half of the enclosing block, and their neighbours outside, in both forms
BlockSamples(c) ==
  LET bits == BitsOf(c.family)
      half == BigShl(BigOne, bits - c.prefix - 1)
      bit  == BigShl(BigOne, bits - c.prefix)
      other == IF BigAnd(c.raw, bit) = <<>> THEN BigOr(c.raw, bit) ELSE BigAndNot(c.raw, bit)
      blocks == { <<c.raw, c.prefix + 1>>, <<BigOr(c.raw, half), c.prefix + 1>> }
                \cup (IF c.prefix = 0 THEN {} ELSE { <<other, c.prefix>> })
      ends(r) == { r[1], r[2] }
      near(around) ==
        around \cup UNION { BigBelow(v, ProbeReach)
                            \cup BigAbove(v, ProbeReach, MaxValue(c.family)) : v \in around }
      forms(values) ==
        UNION { { [text |-> t, family |-> c.family, value |-> v] :
                    t \in expandForms(c.family, v) } : v \in values }
  IN  forms(near(UNION { ends(normalizedRange(b[1], bits, b[2])) : b \in blocks }))

\* the cases of a process that calls the library again and again
RepeatCases ==
  { FuzzCase("10.0.0.1/24", "ipv4", FromSegments(<<10, 0, 0, 1>>, 8), 24),
    FuzzCase("198.051.100.023/20", "ipv4", FromSegments(<<198, 51, 100, 23>>, 8), 20),
    FuzzCase("2001:db8::ff/126", "ipv6", FromSegments(<<8193, 3512, 0, 0, 0, 0, 0, 255>>, 16), 126),
    FuzzCase("FE80:0000:0000:0000:1234:5678:9ABC:DEF0/10", "ipv6",
             FromSegments(<<65152, 0, 0, 0, 4660, 22136, 39612, 57072>>, 16), 10),
    TextCase("10.0.0.256/24") }

(***************************************************************************)
(* Actions.                                                                *)
(***************************************************************************)
Init ==
  /\ hextetRangeCache = EmptyCache
  /\ case = NoCase
  /\ outcome = "none"
  /\ regex = NoRegex
  /\ error = ""
  /\ built = <<>>
  /\ minimized = <<>>
  /\ sample = NoSample
  /\ matched = FALSE
  /\ callers = [p \in Callers |-> IdleCaller]
  /\ options = NoOptions
  /\ interval = NoInterval
  /\ requested = NoRequests
  /\ minimizer = IdleMinimizer

\* a variant that empties the cache where the call throws
CallWithCleared(c, o) ==
  LET end(result) ==
        /\ case' = c
        /\ outcome' = IF result.ok THEN "returned" ELSE "threw"
        /\ regex' = IF result.ok THEN result.regex ELSE NoRegex
        /\ error' = IF result.ok THEN "" ELSE result.error
        /\ built' = IF result.ok THEN result.built ELSE <<>>
        /\ minimized' = IF result.ok THEN result.patterns ELSE <<>>
        /\ hextetRangeCache' = IF result.ok THEN result.cache ELSE EmptyCache
        /\ sample' = NoSample
        /\ matched' = FALSE
        /\ options' = o
        /\ requested' = requested \cup { result.requests[k] : k \in 1..Len(result.requests) }
        /\ UNCHANGED <<callers, interval, minimizer>>
  IN  end(cidrToRegex(c.text, hextetRangeCache))

\* compile(c.text, o) of the newer helpers: cidrToRegex(c.text, o), from the
\* call to its return or throw.  cidrToRegex has one parameter: the second
\* argument is not read
CallWith(c, o) ==
  LET end(result) ==
        /\ case' = c
        /\ outcome' = IF result.ok THEN "returned" ELSE "threw"
        /\ regex' = IF result.ok THEN result.regex ELSE NoRegex
        /\ error' = IF result.ok THEN "" ELSE result.error
        /\ built' = IF result.ok THEN result.built ELSE <<>>
        /\ minimized' = IF result.ok THEN result.patterns ELSE <<>>
        /\ hextetRangeCache' = result.cache
        /\ sample' = NoSample
        /\ matched' = FALSE
        /\ options' = o
        /\ requested' = requested \cup { result.requests[k] : k \in 1..Len(result.requests) }
        /\ UNCHANGED <<callers, interval, minimizer>>
  IN  end(cidrToRegex(c.text, hextetRangeCache))

\* cidrToRegex(c.text), from the call to its return or throw
Call(c) == CallWith(c, NoOptions)

\* regex.test(s.text) on the regex the last call returned.  The regexes carry
\* neither the g nor the y flag, so test leaves nothing behind in them: one
\* test after a call stands for every sequence of tests
Test(s) ==
  /\ outcome = "returned"
  /\ sample = NoSample
  /\ sample' = s
  /\ matched' = RegExpTest(regex, s.text)
  /\ UNCHANGED <<hextetRangeCache, case, outcome, regex, error, built, minimized, callers,
                 options, interval, requested, minimizer>>

\* a process that calls the library any number of times, the cache living
\* as long as the process, and tests the regex of its last call
Next ==
  \/ sample = NoSample /\ \E c \in RepeatCases : Call(c)
  \/ outcome = "returned" /\ sample = NoSample /\ \E s \in Samples(case) : Test(s)

Spec == Init /\ [][Next]_vars

\* one call in a fresh process, over the cases of the fuzz harness
FuzzNext ==
  \/ outcome = "none" /\ \E c \in FuzzCases : Call(c)
  \/ outcome = "returned" /\ sample = NoSample /\ \E s \in Samples(case) : Test(s)

FuzzSpec == Init /\ [][FuzzNext]_vars

\* one call in a fresh process, over texts of every shape
ParseNext == outcome = "none" /\ \E c \in ParseCases : Call(c)

ParseSpec == Init /\ [][ParseNext]_vars

\* the calls of hextetRangePattern the call cidrToRegex(text) makes
RequestsOf(text) ==
  LET ofRange(range) ==
        hextetRangeCalls(ipv6ToHextets(range[1]), ipv6ToHextets(range[2]), 0)
      ofParsed(parsed) ==
        IF parsed.family = "ipv4" THEN <<>>
        ELSE ofRange(normalizeRange(parsed.address, IPV6_BITS, parsed.prefix))
  IN  ofParsed(parseCidr(text))

\* the calls of callers that share the cache, each with the calls of
\* hextetRangePattern it makes: 0-0 twice and two more, 0-0 and two more,
\* 0-0 alone, and none
SharedCases ==
  { [text |-> text, requests |-> RequestsOf(text)] :
      text \in { "::/18", "::1/3", "::ff/16", "10.0.0.1/24" } }

\* where a caller stands once it has n patterns
AfterPattern(caller, n) == IF n = Len(caller.requests) THEN "return" ELSE "get"

\* caller p enters cidrToRegex(c.text): parseCidr to the first call of
\* hextetRangePattern, or to the last one where there is none
Begin(p, c) ==
  /\ callers[p].pc \in {"idle", "done"}
  /\ callers' =
       [callers EXCEPT ![p] =
          [pc |-> IF Len(c.requests) = 0 THEN "return" ELSE "get",
           text |-> c.text, requests |-> c.requests, got |-> <<>>, regex |-> NoRegex]]
  /\ UNCHANGED <<hextetRangeCache, case, outcome, regex, error, built, minimized, sample,
                 matched, options, interval, requested, minimizer>>

\* hextetRangePattern to its if (cached): the key, cache.get, and the return
\* of the cached pattern where there is one
Get(p) ==
  LET caller == callers[p]
      range  == caller.requests[Len(caller.got) + 1]
      key    == hextetRangeKey(range[1], range[2])
  IN  /\ caller.pc = "get"
      /\ callers' =
           [callers EXCEPT ![p] =
              IF key \in DOMAIN hextetRangeCache /\ Len(hextetRangeCache[key]) > 0
              THEN [caller EXCEPT !.got = Append(caller.got, hextetRangeCache[key]),
                                  !.pc = AfterPattern(caller, Len(caller.got) + 1)]
              ELSE [caller EXCEPT !.pc = "set"]]
      /\ requested' = requested \cup {range}
      /\ UNCHANGED <<hextetRangeCache, case, outcome, regex, error, built, minimized, sample,
                     matched, options, interval, minimizer>>

\* the rest of hextetRangePattern after a miss: the pattern, cache.set, return
Set(p) ==
  LET caller  == callers[p]
      range   == caller.requests[Len(caller.got) + 1]
      key     == hextetRangeKey(range[1], range[2])
      pattern == hextetRangeCompute(range[1], range[2])
  IN  /\ caller.pc = "set"
      /\ hextetRangeCache' =
           [k \in DOMAIN hextetRangeCache \cup {key} |->
              IF k = key THEN pattern ELSE hextetRangeCache[k]]
      /\ callers' =
           [callers EXCEPT ![p] =
              [caller EXCEPT !.got = Append(caller.got, pattern),
                             !.pc = AfterPattern(caller, Len(caller.got) + 1)]]
      /\ UNCHANGED <<case, outcome, regex, error, built, minimized, sample, matched, options,
                     interval, requested, minimizer>>

\* the patterns the calls of hextetRangePattern returned to the caller, by key
PatternsGot(caller) ==
  [key \in { hextetRangeKey(caller.requests[k][1], caller.requests[k][2]) :
               k \in 1..Len(caller.got) } |->
     caller.got[Max({ k \in 1..Len(caller.got) :
                       hextetRangeKey(caller.requests[k][1], caller.requests[k][2]) = key })]]

\* the rest of cidrToRegex: the patterns put together, minimizePatternSet,
\* buildRegex and the return
Return(p) ==
  /\ callers[p].pc = "return"
  /\ callers' =
       [callers EXCEPT ![p] =
          [callers[p] EXCEPT !.pc = "done",
                             !.regex = cidrToRegex(callers[p].text,
                                                   PatternsGot(callers[p])).regex]]
  /\ UNCHANGED <<hextetRangeCache, case, outcome, regex, error, built, minimized, sample,
                 matched, options, interval, requested, minimizer>>

\* callers that share the cache, their calls overtaking one another between
\* cache.get and cache.set
SharedNext ==
  \E p \in Callers :
    \/ \E c \in SharedCases : Begin(p, c)
    \/ Get(p)
    \/ Set(p)
    \/ Return(p)

SharedSpec == Init /\ [][SharedNext]_vars

\* the addresses and prefix lengths normalizeRange is given: the values of
\* the fuzz cases, zero and the greatest value, at every prefix length
RangeCases ==
  { FuzzCase("", "ipv4", v, p) :
      v \in FuzzValues4 \cup {<<>>, MaxValue("ipv4")}, p \in 0..IPV4_BITS }
  \cup
  { FuzzCase("", "ipv6", v, p) :
      v \in FuzzValues6 \cup {<<>>, MaxValue("ipv6")}, p \in 0..IPV6_BITS }

\* normalizeRange(c.raw, bits, c.prefix) on its own
Normalize(c) ==
  /\ case' = c
  /\ interval' = normalizeRange(c.raw, BitsOf(c.family), c.prefix)
  /\ UNCHANGED <<hextetRangeCache, outcome, regex, error, built, minimized, sample, matched,
                 callers, options, requested, minimizer>>

RangeNext == interval = NoInterval /\ \E c \in RangeCases : Normalize(c)

RangeSpec == Init /\ [][RangeNext]_vars

\* the intervals the pattern builders are given on their own, as the segments
\* of their two ends: intervals no prefix length gives, some with a segment
\* of the start above the one of the end, one address, and the whole space
BuildCases ==
  { [family |-> "ipv4", start |-> FromSegments(b[1], 8), end |-> FromSegments(b[2], 8)] :
      b \in { << <<10, 0, 0, 200>>, <<10, 0, 1, 5>> >>,
              << <<9, 255, 255, 250>>, <<10, 0, 0, 3>> >>,
              << <<10, 0, 0, 1>>, <<10, 0, 0, 1>> >>,
              << <<10, 0, 0, 0>>, <<10, 0, 0, 255>> >>,
              << <<0, 0, 0, 0>>, <<255, 255, 255, 255>> >>,
              << <<0, 0, 0, 1>>, <<255, 255, 255, 254>> >>,
              << <<192, 168, 254, 7>>, <<192, 170, 1, 3>> >>,
              << <<1, 2, 3, 4>>, <<1, 2, 3, 99>> >>,
              << <<127, 255, 255, 255>>, <<128, 0, 0, 0>> >>,
              << <<198, 51, 100, 23>>, <<203, 0, 113, 9>> >> } }
  \cup
  { [family |-> "ipv6", start |-> FromSegments(b[1], 16), end |-> FromSegments(b[2], 16)] :
      b \in { << <<8193, 3512, 0, 0, 0, 0, 0, 65534>>, <<8193, 3512, 0, 0, 0, 0, 1, 2>> >>,
              << <<8193, 3512, 0, 0, 0, 0, 0, 255>>, <<8193, 3512, 0, 0, 0, 0, 0, 255>> >>,
              << <<0, 0, 0, 0, 0, 0, 0, 1>>,
                 <<65535, 65535, 65535, 65535, 65535, 65535, 65535, 65534>> >>,
              << <<65152, 0, 0, 0, 4660, 22136, 39612, 57072>>,
                 <<65152, 0, 0, 1, 0, 0, 0, 4095>> >>,
              << <<8193, 3512, 65535, 65535, 65535, 65535, 65535, 43981>>,
                 <<8193, 3513, 0, 0, 0, 0, 0, 10>> >>,
              << <<0, 0, 0, 0, 0, 0, 0, 0>>,
                 <<65535, 65535, 65535, 65535, 65535, 65535, 65535, 65535>> >> } }

\* buildIPv4Patterns or buildIPv6Patterns at index 0 on its own, for the
\* interval of b, and the regex of its rows taken together
Build(b) ==
  LET end(rows, flags, cacheAfter, requests) ==
        /\ case' = FuzzCase("", b.family, b.start, 0)
        /\ interval' = <<b.start, b.end>>
        /\ built' = rows
        /\ regex' = buildRegex(rows, flags)
        /\ outcome' = "returned"
        /\ hextetRangeCache' = cacheAfter
        /\ requested' = requested \cup { requests[k] : k \in 1..Len(requests) }
        /\ UNCHANGED <<error, minimized, sample, matched, callers, options, minimizer>>
      endIPv6(result) ==
        end(result.patterns, "i", result.cache,
            hextetRangeCalls(ipv6ToHextets(b.start), ipv6ToHextets(b.end), 0))
  IN  IF b.family = "ipv4"
      THEN end(buildIPv4Patterns(ipv4ToOctets(b.start), ipv4ToOctets(b.end), 0), "",
               hextetRangeCache, <<>>)
      ELSE endIPv6(buildIPv6Patterns(ipv6ToHextets(b.start), ipv6ToHextets(b.end), 0,
                                     hextetRangeCache))

\* the addresses the rows are tried on: the two ends of the interval, the
\* ends of its low, middle and high groups at every index, their neighbours,
\* and the values of the fuzz cases, each in its canonical text
BuildSamples(family) ==
  LET width == IF family = "ipv4" THEN 8 ELSE 16
      count == BitsOf(family) \div width
      \* v with the segments after the first n cleared, or set
      floor(v, n) == BigAndNot(v, BigDec(BigShl(BigOne, (count - n) * width)))
      ceil(v, n)  == BigOr(v, BigDec(BigShl(BigOne, (count - n) * width)))
      marks == UNION { { floor(v, n), ceil(v, n) } : v \in {interval[1], interval[2]},
                                                     n \in 1..count }
      near  == UNION { BigBelow(v, ProbeReach) \cup BigAbove(v, ProbeReach, MaxValue(family)) :
                         v \in marks }
      other == IF family = "ipv4" THEN FuzzValues4 ELSE FuzzValues6
  IN  { [text |-> IF family = "ipv4" THEN formatIPv4Canonical(v) ELSE formatIPv6Canonical(v),
         family |-> family, value |-> v] : v \in marks \cup near \cup other }

BuildNext ==
  \/ outcome = "none" /\ \E b \in BuildCases : Build(b)
  \/ outcome = "returned" /\ sample = NoSample /\ \E s \in BuildSamples(case.family) : Test(s)

BuildSpec == Init /\ [][BuildNext]_vars

\* the second arguments of the callers: every choice of the three options
OptionSets == [anchored : BOOLEAN, ignoreCase : BOOLEAN, global : BOOLEAN]

\* one call with options in a fresh process
OptionNext ==
  outcome = "none" /\ \E c \in RepeatCases \cup BlockCases, o \in OptionSets : CallWith(c, o)

OptionSpec == Init /\ [][OptionNext]_vars

\* one call in a fresh process, over the forms of IPv6 text
FormNext == outcome = "none" /\ \E c \in FormCases : Call(c)

FormSpec == Init /\ [][FormNext]_vars

\* one call in a fresh process for a parent block, and tests of its regex on
\* the universe of the block
BlockNext ==
  \/ outcome = "none" /\ \E c \in BlockCases : Call(c)
  \/ outcome = "returned" /\ sample = NoSample /\ \E s \in BlockSamples(case) : Test(s)

BlockSpec == Init /\ [][BlockNext]_vars

(***************************************************************************)
(* minimizePatternSet followed step by step.                               *)
(***************************************************************************)
\* the pattern sets minimizePatternSet is given, each with the interval its
\* universe is made from: the rows of the parent blocks, as cidrToRegex gives
\* them, the rows of the intervals the builders are given on their own, which
\* are more (but for ::1 to the address before the last, of 31 rows), and
\* pattern sets written by hand: one that merges in two passes, at the last
\* segment and then at the one before, for each family, and one that holds
\* a pattern twice
MinimizeCases ==
  { [family |-> c.family,
     start |-> normalizeRange(c.raw, BitsOf(c.family), c.prefix)[1],
     end |-> normalizeRange(c.raw, BitsOf(c.family), c.prefix)[2],
     given |-> <<>>] : c \in BlockCases }
  \cup
  { [family |-> b.family, start |-> b.start, end |-> b.end, given |-> <<>>] :
      b \in { d \in BuildCases : ~(d.family = "ipv6" /\ d.start = BigOne) } }
  \cup
  { [family |-> "ipv4", start |-> FromSegments(<<1, 2, 3, 4>>, 8),
     end |-> FromSegments(<<1, 2, 9, 5>>, 8),
     given |-> <<"1\\.2\\.3\\.4", "1\\.2\\.3\\.5", "1\\.2\\.9\\.(?:4|5)">>],
    [family |-> "ipv4", start |-> FromSegments(<<10, 0, 0, 1>>, 8),
     end |-> FromSegments(<<10, 0, 0, 2>>, 8),
     given |-> <<"10\\.0\\.0\\.1", "10\\.0\\.0\\.1", "10\\.0\\.0\\.2">>],
    [family |-> "ipv6", start |-> FromSegments(<<8193, 3512, 0, 0, 0, 0, 0, 4>>, 16),
     end |-> FromSegments(<<8193, 3512, 0, 0, 0, 0, 9, 5>>, 16),
     given |-> <<"2001:0db8:0000:0000:0000:0000:0000:0004",
                 "2001:0db8:0000:0000:0000:0000:0000:0005",
                 "2001:0db8:0000:0000:0000:0000:0009:(?:0004|0005)">>] }

\* the addresses the rows are tried on: the two ends of the interval with the
\* segments after the first n cleared, or set, the first n segments of one
\* end followed by the other segments of the other end, and the neighbours of
\* the two ends, each in its canonical text
MinimizeUniverse(b) ==
  LET width == IF b.family = "ipv4" THEN 8 ELSE 16
      count == BitsOf(b.family) \div width
      tail(n) == BigDec(BigShl(BigOne, (count - n) * width))
      mix(u, v, n) == BigOr(BigAndNot(u, tail(n)), BigAnd(v, tail(n)))
      marks == UNION { { BigAndNot(v, tail(n)), BigOr(v, tail(n)) } :
                         v \in {b.start, b.end}, n \in 1..count }
      mixed == UNION { { mix(b.start, b.end, n), mix(b.end, b.start, n) } : n \in 1..count }
      near  == UNION { BigBelow(v, ProbeReach) \cup BigAbove(v, ProbeReach, MaxValue(b.family)) :
                         v \in {b.start, b.end} }
  IN  { IF b.family = "ipv4" THEN formatIPv4Canonical(v) ELSE formatIPv6Canonical(v) :
          v \in marks \cup mixed \cup near }

\* the addresses of a universe that the patterns match, taken together
Language(patterns, flags, universe) ==
  LET matching(r) == { t \in universe : RegExpTest(r, t) }
  IN  matching(buildRegex(patterns, flags))

\* cidrToRegex from the return of the builder into minimizePatternSet, for the
\* interval of b, or minimizePatternSet on the patterns of b: the early return
\* for one pattern, or splitPattern on every pattern, uniquePatternRows, and
\* changed = true before the while loop.  The field language keeps what the
\* patterns given match, for the comparison
Minimize(b) ==
  LET flags        == IF b.family = "ipv4" THEN "" ELSE "i"
      separator    == IF b.family = "ipv4" THEN "\\." ELSE ":"
      segmentCount == IF b.family = "ipv4" THEN 4 ELSE 8
      enter(patterns, split, cacheAfter, requests, universe) ==
        /\ case' = FuzzCase("", b.family, b.start, 0)
        /\ interval' = <<b.start, b.end>>
        /\ built' = patterns
        /\ hextetRangeCache' = cacheAfter
        /\ requested' = requested \cup { requests[k] : k \in 1..Len(requests) }
        /\ minimizer' =
             [pc |-> IF Len(patterns) <= 1 THEN "returned"
                     ELSE IF \E i \in 1..Len(split) : ~split[i].ok THEN "threw"
                     ELSE "for",
              separator |-> separator, segmentCount |-> segmentCount,
              rows |-> IF Len(patterns) <= 1 \/ \E i \in 1..Len(split) : ~split[i].ok
                       THEN <<>>
                       ELSE uniquePatternRows([i \in 1..Len(split) |-> split[i].value]),
              index |-> 0, changed |-> FALSE,
              before |-> IF Len(patterns) <= 1 \/ \E i \in 1..Len(split) : ~split[i].ok
                         THEN 0
                         ELSE Len(uniquePatternRows([i \in 1..Len(split) |-> split[i].value])),
              passes |-> 0,
              universe |-> universe,
              language |-> Language(patterns, flags, universe)]
        /\ minimized' = IF Len(patterns) <= 1 THEN patterns ELSE <<>>
        /\ outcome' = IF Len(patterns) <= 1 THEN "returned"
                      ELSE IF \E i \in 1..Len(split) : ~split[i].ok THEN "threw"
                      ELSE "none"
        /\ error' = IF Len(patterns) > 1 /\ \E i \in 1..Len(split) : ~split[i].ok
                    THEN "Internal pattern split error" ELSE ""
        /\ regex' = IF Len(patterns) <= 1 THEN buildRegex(patterns, flags) ELSE NoRegex
        /\ UNCHANGED <<sample, matched, callers, options>>
      splitAll(patterns, cacheAfter, requests) ==
        enter(patterns,
              SubSeq([i \in 1..Len(patterns) |->
                        splitPattern(patterns[i], separator, segmentCount)], 1, Len(patterns)),
              cacheAfter, requests, MinimizeUniverse(b))
      enterIPv6(result) ==
        splitAll(uniquePatterns(result.patterns), result.cache,
                 hextetRangeCalls(ipv6ToHextets(b.start), ipv6ToHextets(b.end), 0))
  IN  /\ minimizer.pc = "idle"
      /\ IF Len(b.given) > 0 THEN splitAll(b.given, hextetRangeCache, <<>>)
         ELSE IF b.family = "ipv4"
         THEN splitAll(uniquePatterns(buildIPv4Patterns(ipv4ToOctets(b.start),
                                                        ipv4ToOctets(b.end), 0)),
                       hextetRangeCache, <<>>)
         ELSE enterIPv6(buildIPv6Patterns(ipv6ToHextets(b.start), ipv6ToHextets(b.end), 0,
                                          hextetRangeCache))

\* one iteration of the for loop: the rows grouped and merged at index
\* the value of an operator at one argument, worked out once for the step
\* that uses it
Once(Op(_), argument) ==
  CHOOSE value \in BagToSet(BagOfAll(Op, SetToBag({argument}))) : TRUE

\* mergeAtIndex(rows, index) on the pair <<rows, index>>
mergeStep(loop) == mergeAtIndex(loop[1], loop[2])

\* buildRegex(patterns, flags) on the pair <<patterns, flags>>
regexOf(loop) == buildRegex(loop[1], loop[2])

Merge ==
  LET merged(step) ==
        minimizer' = [minimizer EXCEPT !.rows = step.rows,
                                       !.index = minimizer.index + 1,
                                       !.changed = minimizer.changed \/ step.changed]
  IN  /\ minimizer.pc = "for"
      /\ minimizer.index < minimizer.segmentCount
      /\ merged(Once(mergeStep, <<minimizer.rows, minimizer.index>>))
      /\ UNCHANGED <<hextetRangeCache, case, outcome, regex, error, built, minimized, sample,
                     matched, callers, options, interval, requested>>

\* a variant that goes into another pass with changed as it is
AgainForever ==
  /\ minimizer.pc = "for"
  /\ minimizer.index = minimizer.segmentCount
  /\ minimizer.changed
  /\ minimizer' = [minimizer EXCEPT !.index = 0, !.before = Len(minimizer.rows)]
  /\ UNCHANGED <<hextetRangeCache, case, outcome, regex, error, built, minimized, sample,
                 matched, callers, options, interval, requested>>

\* the end of the for loop and the test of while (changed): another pass with
\* changed = false
Again ==
  /\ minimizer.pc = "for"
  /\ minimizer.index = minimizer.segmentCount
  /\ minimizer.changed
  /\ minimizer' = [minimizer EXCEPT !.index = 0, !.changed = FALSE,
                                    !.before = Len(minimizer.rows),
                                    !.passes = minimizer.passes + 1]
  /\ UNCHANGED <<hextetRangeCache, case, outcome, regex, error, built, minimized, sample,
                 matched, callers, options, interval, requested>>

\* a variant that leaves the loop after a pass whether a group has merged or
\* not
LeaveEarly ==
  /\ minimizer.pc = "for"
  /\ minimizer.index = minimizer.segmentCount
  /\ minimizer' = [minimizer EXCEPT !.pc = "returned", !.passes = minimizer.passes + 1]
  /\ minimized' = [i \in 1..Len(minimizer.rows) |->
                     Join(minimizer.rows[i], minimizer.separator)]
  /\ regex' = Once(regexOf, <<[i \in 1..Len(minimizer.rows) |->
                                 Join(minimizer.rows[i], minimizer.separator)],
                              IF case.family = "ipv4" THEN "" ELSE "i">>)
  /\ outcome' = "returned"
  /\ UNCHANGED <<hextetRangeCache, case, error, built, sample, matched, callers, options,
                 interval, requested>>

\* the end of the for loop and the test of while (changed) where no group has
\* merged: the rows joined and returned, and buildRegex on them
Leave ==
  /\ minimizer.pc = "for"
  /\ minimizer.index = minimizer.segmentCount
  /\ ~minimizer.changed
  /\ minimizer' = [minimizer EXCEPT !.pc = "returned", !.passes = minimizer.passes + 1]
  /\ minimized' = [i \in 1..Len(minimizer.rows) |->
                     Join(minimizer.rows[i], minimizer.separator)]
  /\ regex' = Once(regexOf, <<[i \in 1..Len(minimizer.rows) |->
                                 Join(minimizer.rows[i], minimizer.separator)],
                              IF case.family = "ipv4" THEN "" ELSE "i">>)
  /\ outcome' = "returned"
  /\ UNCHANGED <<hextetRangeCache, case, error, built, sample, matched, callers, options,
                 interval, requested>>

MinimizeNext ==
  \/ \E b \in MinimizeCases : Minimize(b)
  \/ Merge
  \/ Again
  \/ Leave

MinimizeSpec == Init /\ [][MinimizeNext]_vars

\* the call runs on one thread to its end: a call that has entered the loop
\* takes its next step
MinimizeLive == Init /\ [][MinimizeNext]_vars /\ WF_vars(Merge \/ Again \/ Leave)

(***************************************************************************)
(* The digit-range compilers on their own.                                 *)
(***************************************************************************)
\* the ends the sub-ranges are made of: the least and the greatest value and
\* the values where a digit is added or carries
OctetMarks == {0, 1, 9, 10, 99, 100, 199, 200, 254, 255}

HextetMarks ==
  {0, 1, 9, 10, 15, 16, 255, 256, 4095, 4096, 4660, 32767, 32768, 43981, 65534, 65535}

\* every sub-range from low to high of the marks
DigitCases ==
  { [family |-> "octet", low |-> r[1], high |-> r[2]] :
      r \in { q \in OctetMarks \X OctetMarks : q[1] <= q[2] } }
  \cup
  { [family |-> "hextet", low |-> r[1], high |-> r[2]] :
      r \in { q \in HextetMarks \X HextetMarks : q[1] <= q[2] } }

\* octetRangePattern(low, high) or hextetRangePattern(low, high) on its own,
\* and the regex of the fragment between ^ and $
Compile(r) ==
  LET end(fragment, cacheAfter, requests) ==
        /\ case' = FuzzCase("", r.family, <<>>, 0)
        /\ interval' = <<r.low, r.high>>
        /\ built' = <<fragment>>
        /\ regex' = buildRegex(<<fragment>>, "")
        /\ outcome' = "returned"
        /\ hextetRangeCache' = cacheAfter
        /\ requested' = requested \cup requests
        /\ UNCHANGED <<error, minimized, sample, matched, callers, options, minimizer>>
      endHextet(result) == end(result.pattern, result.cache, { <<r.low, r.high>> })
  IN  IF r.family = "octet"
      THEN end(octetRangePattern(r.low, r.high), hextetRangeCache, {})
      ELSE endHextet(hextetRangePattern(r.low, r.high, hextetRangeCache))

\* the texts a fragment is tried on, each with the value it stands for (as a
\* bigint, like the values of the other samples): the
\* two ends of the sub-range, the values where its low and its high group
\* end, and their neighbours, as the fragment writes them; and texts it does
\* not write: with a zero before, without the padding, in upper case, with a
\* character more
DigitSamples(family) ==
  LET max    == IF family = "octet" THEN 255 ELSE 65535
      base   == IF family = "octet" THEN 10 ELSE 16
      digits == IF family = "octet" THEN 2 ELSE 3
      text(v) == IF family = "octet" THEN ToDecimal(v) ELSE PadStart(ToHex(v), 4, "0")
      marks  == {interval[1], interval[2], 0, max}
                \cup UNION { { v - (v % (base ^ k)), v - (v % (base ^ k)) + (base ^ k) - 1 } :
                               v \in {interval[1], interval[2]}, k \in 1..digits }
      values == { v \in UNION { (m - ProbeReach)..(m + ProbeReach) : m \in marks } : v >= 0 }
      other(v) == IF family = "octet"
                  THEN { "0" \o ToDecimal(v), "00" \o ToDecimal(v), ToDecimal(v) \o ".",
                         PadStart(ToDecimal(v), 3, "0") }
                  ELSE { ToHex(v), ToUpperCase(PadStart(ToHex(v), 4, "0")),
                         "0" \o PadStart(ToHex(v), 4, "0"), PadStart(ToHex(v), 4, "0") \o "0" }
  IN  { [text |-> text(v), family |-> family, value |-> BigInt(v)] : v \in values }
      \cup
      UNION { { [text |-> t, family |-> family, value |-> BigInt(v)] : t \in other(v) } :
                v \in {interval[1], interval[2]} }

DigitNext ==
  \/ outcome = "none" /\ \E r \in DigitCases : Compile(r)
  \/ outcome = "returned" /\ sample = NoSample /\ \E s \in DigitSamples(case.family) : Test(s)

DigitSpec == Init /\ [][DigitNext]_vars

(***************************************************************************)
(* A process whose calls follow one another, the cache living as long as   *)
(* the process.                                                            *)
(***************************************************************************)
\* the calls of the process: IPv6 blocks whose calls of hextetRangePattern
\* have ranges in common and ranges of their own, IPv4 blocks, and texts that
\* cidrToRegex rejects
CacheCases ==
  { TextCase(text) :
      text \in { "2001:db8::ff/126", "2001:db8::/33", "fe80::1234:5678:9abc:def0/77",
                 "::ffff:10.0.0.1/100",
                 "10.0.0.1/24", "192.0.2.0/30",
                 "10.0.0.256/24", "2001:db8::/129", "2001:db8::g/64", "2001:db8::1" } }

CacheNext == \E c \in CacheCases : Call(c)

CacheSpec == Init /\ [][CacheNext]_vars

(***************************************************************************)
(* Properties of the returned regex (FuzzSpec).                            *)
(***************************************************************************)
\* the last call returned a regex and a sample has been given to its test
Tested == outcome = "returned" /\ sample # NoSample

\* v lies in the interval the harness expects for the case c
InInterval(c, v) ==
  LET range == normalizedRange(c.raw, BitsOf(c.family), c.prefix)
  IN  BigLeq(range[1], v) /\ BigLeq(v, range[2])

\* s is written in the canonical maximal form of its family
CanonicalText(s) ==
  s.text = (IF s.family = "ipv4" THEN formatIPv4Canonical(s.value)
            ELSE formatIPv6Canonical(s.value))

\* C1: for a valid CIDR text and an address of its family written in
\* canonical maximal form, the returned regex matches the address's string if
\* and only if the address lies in the interval from the address with its
\* host bits cleared to the address with its host bits set.
RoundTripMembership ==
  Tested /\ CanonicalText(sample) => (matched <=> InInterval(case, sample.value))

\* an IPv6 CIDR with host bits set, written with an embedded IPv4 tail, has
\* matched the canonical text of the last address of its interval
RoundTripReached ==
  /\ Tested /\ CanonicalText(sample) /\ matched
  /\ case.family = "ipv6" /\ case.prefix = 47
  /\ sample.value = normalizedRange(case.raw, IPV6_BITS, case.prefix)[2]
  /\ sample.value # case.raw

\* the characters put before and after a matched string
ExtraChars == {"x", "0", "1", "f", "\n"}

\* the address a canonical IPv4 text denotes
ValueOfIPv4(text) == FromSegments([i \in 1..4 |-> ParseDecimal(Split(text, ".")[i])], 8)

SiblingText(c, v) ==
  IF c.family = "ipv4" THEN formatIPv4Cidr(v, c.prefix, FALSE)
  ELSE formatIPv6Cidr(v, c.prefix, 0)

\* C3: two valid CIDR texts of one family and one prefix length whose
\* addresses agree on the prefix bits give regexes with the same source and
\* the same flags, hence regexes that match the same strings: the regex of a
\* case is that of the first and that of the last address of its interval.
HostBitNormalization ==
  outcome = "returned" /\ sample = NoSample =>
    \A v \in { normalizedRange(case.raw, BitsOf(case.family), case.prefix)[1],
               normalizedRange(case.raw, BitsOf(case.family), case.prefix)[2] } :
      LET other == cidrToRegex(SiblingText(case, v), EmptyCache)
      IN  /\ other.ok
          /\ other.regex.source = regex.source
          /\ other.regex.flags = regex.flags

\* a call has returned for an address that is neither end of its interval
HostBitNormalizationReached ==
  /\ outcome = "returned" /\ sample = NoSample
  /\ case.family = "ipv4" /\ case.prefix = 22
  /\ case.raw \notin { normalizedRange(case.raw, IPV4_BITS, case.prefix)[1],
                       normalizedRange(case.raw, IPV4_BITS, case.prefix)[2] }

\* C4: the regex of an IPv4 CIDR of prefix length 32, or of an IPv6 CIDR of
\* prefix length 128, matches the canonical text of the input address and of
\* no other address, its predecessor and its successor included.
BoundaryExactness ==
  Tested /\ case.prefix = BitsOf(case.family) /\ CanonicalText(sample) =>
    (matched <=> sample.value = case.raw)

\* the regex of a /128 has been tested on the successor of its address
BoundaryExactnessReached ==
  /\ Tested /\ case.family = "ipv6" /\ case.prefix = IPV6_BITS
  /\ CanonicalText(sample)
  /\ case.raw # MaxValue("ipv6") /\ sample.value = BigInc(case.raw)
  /\ ~matched

\* text has eight groups of four hex digits, of either case
IsFullHexText(text) ==
  LET groups == Split(text, ":")
  IN  /\ Len(groups) = 8
      /\ \A i \in 1..8 :
           /\ Len(groups[i]) = 4
           /\ \A k \in 1..4 : Includes(HEX_DIGITS, LowerCh(Ch(groups[i], k)))

ShortIPv6Text(text) ==
  LET groups == Split(text, ":")
  IN  \/ Includes(text, "::")
      \/ Len(groups) < 8
      \/ \E i \in 1..Len(groups) : Len(groups[i]) < 4

\* text is an IPv4 text of fewer than four components
ShortIPv4Text(text) == Len(Split(text, ".")) < 4

\* C6: no returned regex matches a compressed IPv6 string, an IPv6 string
\* of fewer than eight groups or with a group of fewer than four hex digits,
\* or an IPv4 string of fewer than four components, wherever the address the
\* string denotes lies.
NonCanonicalNeverMatch ==
  Tested /\ (\/ sample.family = "ipv6" /\ ShortIPv6Text(sample.text)
             \/ sample.family = "ipv4" /\ ShortIPv4Text(sample.text))
    => ~matched

\* a compressed text of an address of the interval has been tested
NonCanonicalReached ==
  /\ Tested /\ sample.family = "ipv6" /\ Includes(sample.text, "::")
  /\ sample.text = formatIPv6Compressed(sample.value)
  /\ InInterval(case, sample.value)
  /\ ~matched

\* the sample is a rendering of its address by formatIPv4Padded
PaddedRendering ==
  /\ sample.family = "ipv4"
  /\ \E w \in PaddedWidths : sample.text = formatIPv4Padded(sample.value, w)

\* C7: the regex of an IPv4 CIDR matches a string whose octets are written
\* with leading zeros, up to three digits each, if and only if the address
\* the string denotes lies in the interval.
LeadingZerosAccepted ==
  Tested /\ PaddedRendering => (matched <=> InInterval(case, sample.value))

SlashParts(text) == Split(Trim(text), "/")

\* the trimmed text is one non-empty address part, a slash and a prefix part
WellShaped(text) == Len(SlashParts(text)) = 2 /\ Len(SlashParts(text)[1]) > 0

\* digits is a text of decimal digits whose value is at most bound (< 1000)
DecimalAtMost(digits, bound) ==
  /\ AllDigits(digits)
  /\ Len(StripZeros(digits)) <= 3
  /\ ParseDecimal(StripZeros(digits)) <= bound

\* the width of the family the address part belongs to
WidthOf(addressText) == IF Includes(addressText, ":") THEN IPV6_BITS ELSE IPV4_BITS

\* the text has the shape, and a prefix part of digits within the width
ShapeAndPrefixFine(text) ==
  /\ WellShaped(text)
  /\ DecimalAtMost(SlashParts(text)[2], WidthOf(SlashParts(text)[1]))

\* the address part is an address known to be valid: the canonical text of
\* the value of the case, or one of three addresses written by hand
KnownAddress(c) ==
  SlashParts(c.text)[1] \in
    { formatIPv4Canonical(c.raw), formatIPv6Canonical(c.raw), "10.0.0.0", "2001:db8::", "::" }

\* C9: cidrToRegex throws, and returns no regex, when the trimmed input is
\* not one non-empty address part and one prefix part separated by a slash,
\* when the prefix part is not a non-empty text of decimal digits, and when
\* its value is above 32 (IPv4) or 128 (IPv6); with a valid address part it
\* returns for every prefix value from 0 to the width.
ShapeAndPrefixValidation ==
  outcome # "none" =>
    /\ ~ShapeAndPrefixFine(case.text) => outcome = "threw" /\ regex = NoRegex
    /\ ShapeAndPrefixFine(case.text) /\ KnownAddress(case) => outcome = "returned"

\* a call has thrown for a prefix part of digits whose value wraps to 24 in
\* 32 bits
ShapeAndPrefixReached ==
  /\ outcome = "threw"
  /\ case.text = "10.0.0.0/4294967320"
  /\ WellShaped(case.text) /\ AllDigits(SlashParts(case.text)[2])

\* text is four components between dots, each of digits with value <= 255
ValidIPv4Text(text) ==
  LET parts == Split(text, ".")
  IN  /\ Len(parts) = 4
      /\ \A i \in 1..4 : DecimalAtMost(parts[i], 255)

\* the text with the leading zeros of its components taken away
WithoutLeadingZeros(text) ==
  LET parts == Split(text, ".")
  IN  Join([i \in 1..Len(parts) |-> StripZeros(parts[i])], ".")

\* C10: with the shape and the prefix in order, an address part without a
\* colon is accepted if and only if it is four components between dots, each
\* a non-empty text of decimal digits of value 0..255; leading zeros do not
\* change the result, which is the regex of the address written without
\* them; a component above 255 makes the call throw.
IPv4AddressParsing ==
  outcome # "none" /\ ShapeAndPrefixFine(case.text)
    /\ ~Includes(SlashParts(case.text)[1], ":") =>
    LET addressText == SlashParts(case.text)[1]
        plain == cidrToRegex(WithoutLeadingZeros(addressText) \o "/"
                               \o SlashParts(case.text)[2], EmptyCache)
    IN  /\ outcome = "returned" <=> ValidIPv4Text(addressText)
        /\ outcome = "returned" =>
             /\ plain.ok
             /\ plain.regex.source = regex.source
             /\ plain.regex.flags = regex.flags

\* a call has returned for an address with leading zeros in a component
IPv4AddressParsingReached ==
  /\ outcome = "returned"
  /\ case.text = "10.0.0.0255/24"
  /\ WithoutLeadingZeros(SlashParts(case.text)[1]) = "10.0.0.255"

(***************************************************************************)
(* Properties of the IPv6 address part (ParseSpec).                        *)
(***************************************************************************)
\* the address part of the case, in lower case
LowerAddress(c) == ToLowerCase(SlashParts(c.text)[1])

\* the two 16-bit groups a dotted quad stands for, in hex
QuadGroups(quad) ==
  LET n == [i \in 1..4 |-> ParseDecimal(Split(quad, ".")[i])]
  IN  ToHex(n[1] * 256 + n[2]) \o ":" \o ToHex(n[3] * 256 + n[4])

\* the text with a dotted quad after its last colon written as two groups;
\* "" when the text has a dot that is not part of such a quad
WithQuadExpanded(text) ==
  LET k == LastIndexOf(text, ":")
  IN  IF ~Includes(text, ".") THEN text
      ELSE IF k = 0 \/ ~ValidIPv4Text(Slice(text, k + 1)) THEN ""
      ELSE Sub(text, 1, k) \o QuadGroups(Slice(text, k + 1))

\* the number of places where text has two colons in a row, counted apart
DoubleColons(text) == Len(Split(text, "::")) - 1

\* the groups written before and after the "::" of a text that has one
GroupsBefore(text) ==
  LET k == IndexOfFrom(text, "::", 1)
  IN  IF k = 1 THEN <<>> ELSE Split(Sub(text, 1, k - 1), ":")

GroupsAfter(text) ==
  LET k == IndexOfFrom(text, "::", 1)
  IN  IF k + 1 = Len(text) THEN <<>> ELSE Split(Slice(text, k + 2), ":")

\* the groups the text writes out
ExplicitGroups(text) ==
  IF Includes(text, "::") THEN GroupsBefore(text) \o GroupsAfter(text) ELSE Split(text, ":")

\* one to four hex digits
HexGroup(group) ==
  Len(group) \in 1..4 /\ \A i \in 1..Len(group) : Includes(HEX_DIGITS, Ch(group, i))

\* the rules of the address part, on a lower-case text with its quad expanded
IPv6Rejected(text) ==
  \/ DoubleColons(text) > 1
  \/ \E i \in 1..Len(ExplicitGroups(text)) : Len(ExplicitGroups(text)[i]) = 0
  \/ Includes(text, "::") /\ Len(ExplicitGroups(text)) >= 8
  \/ ~Includes(text, "::") /\ Len(ExplicitGroups(text)) # 8
  \/ \E i \in 1..Len(ExplicitGroups(text)) : ~HexGroup(ExplicitGroups(text)[i])

\* the eight groups of an accepted text, the gap of "::" filled with zeros
EightGroups(text) ==
  IF Includes(text, "::")
  THEN GroupsBefore(text) \o [i \in 1..(8 - Len(ExplicitGroups(text))) |-> "0"]
         \o GroupsAfter(text)
  ELSE Split(text, ":")

\* the source of the regex of the one address of the eight groups
SourceOfGroups(groups) ==
  "^(?:" \o Join([i \in 1..Len(groups) |-> PadStart(groups[i], 4, "0")], ":") \o ")$"

\* the case is an address part with a colon followed by /128
IPv6AddressCase(c) ==
  /\ c.family = "text"
  /\ ShapeAndPrefixFine(c.text)
  /\ SlashParts(c.text)[2] = "128"
  /\ Includes(SlashParts(c.text)[1], ":")

\* C11: an address part with a colon (in lower case, a dotted quad after its
\* last colon read as two groups) is rejected when it has more than one "::",
\* when a group outside the "::" is empty, when it has "::" and eight or more
\* groups written out, when it has no "::" and not exactly eight groups, and
\* when a group is not one to four hex digits; every other address part is
\* accepted and stands for eight groups, the gap of "::" filled with zero
\* groups.
IPv6AddressRejection ==
  outcome # "none" /\ IPv6AddressCase(case) =>
    LET text == WithQuadExpanded(LowerAddress(case))
    IN  /\ outcome = "threw" <=> IPv6Rejected(text)
        /\ outcome = "returned" =>
             /\ Len(EightGroups(text)) = 8
             /\ regex.source = SourceOfGroups(EightGroups(text))

\* a call has returned for an address whose "::" stands for one group, and
\* another has thrown for eight groups and a "::"
IPv6AddressRejectionReached ==
  \/ /\ outcome = "returned"
     /\ case.text = "1:2:3:4:5:6:7::/128"
     /\ regex.source = "^(?:0001:0002:0003:0004:0005:0006:0007:0000)$"
  \/ /\ outcome = "threw"
     /\ case.text = "1:2:3:4:5:6:7:8::/128"

(***************************************************************************)
(* Properties of the forms of IPv6 text (FormSpec).                        *)
(***************************************************************************)
\* the case writes its address in a form other than the canonical one
OtherForm(c) == c.text # formatIPv6Cidr(c.raw, c.prefix, 0)

\* C12: the canonical, the compressed, the upper-case and the embedded
\* dotted-quad text of an IPv6 address, each with the same prefix length of
\* 0..128, are all accepted, parse to the same address and prefix, and give
\* the regex the canonical text gives.
LiberalFormsAgree ==
  outcome # "none" /\ case.family = "ipv6" =>
    /\ outcome = "returned"
    /\ parseCidr(case.text)
         = [ok |-> TRUE, family |-> "ipv6", address |-> case.raw, prefix |-> case.prefix]
    /\ regex = cidrToRegex(formatIPv6Cidr(case.raw, case.prefix, 0), EmptyCache).regex

\* ::ff/16 has been compiled, and so has an embedded dotted-quad text
LiberalFormsReached ==
  /\ outcome = "returned"
  /\ OtherForm(case)
  /\ \/ case.text = "::ff/16"
     \/ case.text = "2001:0db8:0000:0000:0000:0000:0.0.0.255/48"

(***************************************************************************)
(* Properties of the error a failing call reports (ParseSpec).             *)
(***************************************************************************)
\* the category a failing call on text belongs to
ErrorCategory(text) ==
  IF ~WellShaped(text) \/ ~AllDigits(SlashParts(text)[2]) THEN "MalformedInput"
  ELSE IF ~ShapeAndPrefixFine(text) THEN "PrefixOutOfRange"
  ELSE "InvalidAddress"

\* one failing text of each category
CategoryTexts == { "10.0.0.0", "10.0.0.0/abc", "10.0.0.0/33", "2001:db8::/129",
                   "300.0.0.1/24", "2001:db8::zzzz/64" }

SeparatorOf(flags) == IF flags = "i" THEN ":" ELSE "\\."

SegmentsOf(flags) == IF flags = "i" THEN 8 ELSE 4

\* C14: a call throws only where parseCidr refuses the input: for every
\* input parseCidr accepts the call returns, no call ends with "Internal
\* pattern split error" or "Invalid hex digit", and every pattern handed to
\* minimizePatternSet splits into exactly 4 (IPv4) or 8 (IPv6) fragments.
ParserSoleFailurePoint ==
  outcome # "none" =>
    /\ outcome = "returned" <=> parseCidr(case.text).ok
    /\ error \notin {"Internal pattern split error", "Invalid hex digit"}
    /\ outcome = "returned" =>
         /\ Len(built) >= 1
         /\ \A i \in 1..Len(built) :
              LET parts == splitPattern(built[i], SeparatorOf(regex.flags),
                                        SegmentsOf(regex.flags))
              IN  parts.ok /\ Len(parts.value) = SegmentsOf(regex.flags)

\* a call has returned after minimizePatternSet split several IPv6 patterns
\* with groups and classes in them
ParserSoleFailureReached ==
  /\ outcome = "returned"
  /\ regex.flags = "i"
  /\ Len(built) >= 3
  /\ \E i \in 1..Len(built) : Includes(built[i], "(?:") /\ Includes(built[i], "[")

\* C15: every call that returns has one row in the pattern set that
\* minimizePatternSet gives back, whatever the family and the prefix length
\* (/0, /1, /22, /23, /30, /33, /47 and /126 among them), and the regex is
\* made of that row alone.
OnePatternPerCidr ==
  outcome = "returned" =>
    /\ Len(minimized) = 1
    /\ regex.source = "^(?:" \o minimized[1] \o ")$"

\* a call has returned for a /22 or a /47 whose three built patterns were
\* merged into one row
OnePatternReached ==
  /\ outcome = "returned"
  /\ case.prefix \in {22, 47}
  /\ Len(built) = 3
  /\ Len(minimized) = 1

(***************************************************************************)
(* Properties of a block and the blocks around it (BlockSpec).             *)
(***************************************************************************)
\* compile(cidr) of the tests in a fresh process
RegexOf(c) == cidrToRegex(c.text, EmptyCache).regex

\* maskForRegexes: the texts of the universe that one of the regexes matches
\* (the source keeps them as the bits of a bigint)
maskForRegexes(universe, regexes) ==
  { u \in universe : \E i \in 1..Len(regexes) : RegExpTest(regexes[i], u) }

\* the least number of candidates that match, together, what the target
\* matches in the universe; -1 where no set of candidates does (null)
findMinimumEquivalentSetSize(candidates, universe, targetRegexes) ==
  LET size(targetMask, masks) ==
        LET usable == { i \in 1..Len(masks) : masks[i] # {} /\ masks[i] \subseteq targetMask }
            covers == { picked \in SUBSET usable :
                          UNION { masks[i] : i \in picked } = targetMask }
        IN  IF covers = {} THEN -1 ELSE Min({ Cardinality(picked) : picked \in covers })
  IN  IF universe = {} THEN 0
      ELSE size(maskForRegexes(universe, targetRegexes),
                SubSeq([i \in 1..Len(candidates) |-> maskForRegexes(universe, <<candidates[i]>>)],
                       1, Len(candidates)))

\* the candidates of the tests for a block of four addresses: its halves,
\* its four addresses, the other half of the enclosing block, and that block
ChildAndDecoyCandidates(c) ==
  LET four == [k \in 1..4 |->
                 RegexOf(BlockCase(c.family, BigOr(c.raw, BigInt(k - 1)), c.prefix + 2))]
      halves == [k \in 1..2 |->
                   RegexOf(BlockCase(c.family, BigOr(c.raw, BigInt(2 * (k - 1))), c.prefix + 1))]
  IN  halves \o four \o << RegexOf(SiblingCase(c)), RegexOf(EnclosingCase(c)) >>

\* the universe of the tests: the eight addresses of the enclosing block
EnclosingUniverse(c) ==
  UNION { expandForms(c.family, BigOr(EnclosingCase(c).raw, BigInt(k))) : k \in 0..7 }

\* the text of the first address of the block of a case
FirstAddress(c) ==
  IF c.family = "ipv4" THEN formatIPv4Canonical(c.raw) ELSE formatIPv6Canonical(c.raw)

\* C16: the regex of a block of prefix length p below the width matches a
\* text exactly when the regex of one of its two /(p+1) halves does, and no
\* text is matched by both halves; each half matches its first address; for
\* p >= 1 the regex of the other half of the enclosing /(p-1) block, and the
\* regex of that block, match an address the block's regex does not; and for
\* 192.0.2.0/30 and 2001:db8::/126 the least cover of the block by the
\* regexes of other blocks has two regexes, and one with its own regex.
ParentIsUnionOfChildren ==
  /\ Tested =>
       \E two \in SUBSET ChildCases(case) :
         /\ Cardinality(ChildCases(case)) = 2
         /\ two = { d \in ChildCases(case) : RegExpTest(RegexOf(d), sample.text) }
         /\ Cardinality(two) <= 1
         /\ matched <=> two # {}
  /\ outcome = "returned" /\ sample = NoSample =>
       /\ \A d \in ChildCases(case) : RegExpTest(RegexOf(d), FirstAddress(d))
       /\ case.prefix >= 1 =>
            /\ RegExpTest(RegexOf(SiblingCase(case)), FirstAddress(SiblingCase(case)))
            /\ RegExpTest(RegexOf(EnclosingCase(case)), FirstAddress(SiblingCase(case)))
            /\ ~RegExpTest(regex, FirstAddress(SiblingCase(case)))
       /\ case.text \in {"192.0.2.0/30", "2001:db8::/126"} =>
            /\ findMinimumEquivalentSetSize(ChildAndDecoyCandidates(case),
                                            EnclosingUniverse(case), <<regex>>) = 2
            /\ findMinimumEquivalentSetSize(ChildAndDecoyCandidates(case) \o <<regex>>,
                                            EnclosingUniverse(case), <<regex>>) = 1

\* the regex of 192.0.2.0/30 has matched 192.0.2.2, the first address of its
\* second half
ParentIsUnionReached ==
  /\ Tested
  /\ case.text = "192.0.2.0/30"
  /\ sample.text = "192.0.2.2"
  /\ matched

(***************************************************************************)
(* Properties of calls that share the cache (SharedSpec).                  *)
(***************************************************************************)
\* the regex a call returns when it is made alone against an empty cache
AloneRegex == [c \in SharedCases |-> cidrToRegex(c.text, EmptyCache).regex]

\* the case of the call of a caller
CallOf(caller) == CHOOSE c \in SharedCases : c.text = caller.text

\* C17: whatever calls the callers that share hextetRangeCache have made and
\* however their steps fall between one another (a call overtaken between
\* cache.get and cache.set of hextetRangePattern among them), a call returns
\* the regex, source and flags, that the same call returns alone against an
\* empty cache; so two calls with the same input return the same regex.
IndependentCalls ==
  /\ \A p \in Callers :
       callers[p].pc = "done" =>
         /\ callers[p].regex.source = AloneRegex[CallOf(callers[p])].source
         /\ callers[p].regex.flags = AloneRegex[CallOf(callers[p])].flags
  /\ \A p, q \in Callers :
       callers[p].pc = "done" /\ callers[q].pc = "done" /\ callers[p].text = callers[q].text =>
         callers[p].regex = callers[q].regex

\* a call has returned after it and another call both missed 0-0 in the
\* cache, the other call still before its cache.set
IndependentCallsReached ==
  \E p \in Callers :
    /\ callers[p].pc = "done"
    /\ callers[p].text = "::/18"
    /\ \E q \in Callers \ {p} :
         /\ callers[q].pc = "set"
         /\ callers[q].text = "::1/3"
         /\ Len(callers[q].got) = 0

(***************************************************************************)
(* Properties of the options (OptionSpec).                                 *)
(***************************************************************************)
\* isAnchoredRegex of the helpers
isAnchoredRegex(r) ==
  StartsWithAt(r.source, "^(?:", 1) /\ Slice(r.source, Len(r.source) - 1) = ")$"

\* C18: the regex a call with the options {anchored, ignoreCase, global}
\* returns, each option false where it is left out, has the anchors ^ and $
\* exactly when anchored is true, the i flag exactly when ignoreCase is true,
\* and the g flag exactly when global is true.
OptionTranslation ==
  outcome = "returned" =>
    /\ isAnchoredRegex(regex) <=> options.anchored
    /\ Includes(regex.flags, "i") <=> options.ignoreCase
    /\ Includes(regex.flags, "g") <=> options.global

(***************************************************************************)
(* Properties of normalizeRange (RangeSpec).                               *)
(***************************************************************************)
\* a - b for a number b whose one bits are one bits of a
BigMinus(a, b) == BigAndNot(a, b)

\* C19: for an address of 32 or 128 bits and a prefix length from 0 to the
\* width, normalizeRange returns as start the address with its low (width -
\* prefix length) bits cleared and as end the start with those bits set, both
\* below 2^width; so start <= address <= end, end - start + 1 = 2^(width -
\* prefix length), start = end = address at the full prefix length and
\* [start, end] = [0, 2^width - 1] at prefix length 0.
NormalizeRangeExact ==
  interval # NoInterval =>
    LET bits     == BitsOf(case.family)
        hostBits == bits - case.prefix
        start    == interval[1]
        end      == interval[2]
    IN  /\ \A i \in 0..(bits - 1) :
             /\ BigBit(start, i) = IF i < hostBits THEN 0 ELSE BigBit(case.raw, i)
             /\ BigBit(end, i) = IF i < hostBits THEN 1 ELSE BigBit(case.raw, i)
        /\ Len(start) <= bits /\ Len(end) <= bits
        /\ BigStrip(start) = start /\ BigStrip(end) = end
        /\ BigLeq(start, case.raw) /\ BigLeq(case.raw, end)
        /\ BigAnd(end, start) = start
        /\ BigInc(BigMinus(end, start)) = BigShl(BigOne, hostBits)
        /\ case.prefix = bits => start = case.raw /\ end = case.raw
        /\ case.prefix = 0 => start = <<>> /\ end = MaxValue(case.family)

\* normalizeRange has returned the whole IPv6 space for a prefix length of 0,
\* and an interval of 2^51 addresses around an address with host bits
NormalizeRangeReached ==
  /\ interval # NoInterval
  /\ case.family = "ipv6"
  /\ case.raw = FromSegments(<<65152, 0, 0, 0, 4660, 22136, 39612, 57072>>, 16)
  /\ \/ case.prefix = 0 /\ interval = << <<>>, MaxValue("ipv6") >>
     \/ case.prefix = 77 /\ interval[1] # case.raw /\ interval[2] # case.raw

(***************************************************************************)
(* Properties of the pattern builders on their own (BuildSpec).            *)
(***************************************************************************)
\* a segment of the start is above the segment of the end at the same place
CrossingSegments ==
  \E n \in 0..3 :
    BigToNumber(BigAnd(BigShr(interval[1], 8 * n), BigInt(255)))
      > BigToNumber(BigAnd(BigShr(interval[2], 8 * n), BigInt(255)))

\* C20: for any interval from start to end, start not above end in the order
\* of the segment vectors (intervals no prefix length gives among them, and
\* intervals where a later segment of start is above the one of end), the
\* rows buildIPv4Patterns or buildIPv6Patterns returns at index 0 match,
\* taken together, the address of a vector v exactly when start <= v <= end.
BuilderExactness ==
  Tested /\ interval # NoInterval =>
    /\ BigLeq(interval[1], interval[2])
    /\ matched <=> BigLeq(interval[1], sample.value) /\ BigLeq(sample.value, interval[2])

\* the rows of 10.0.0.200 .. 10.0.1.5 have matched 10.0.0.255, and have not
\* matched 10.0.1.6
BuilderExactnessReached ==
  /\ Tested
  /\ interval = << FromSegments(<<10, 0, 0, 200>>, 8), FromSegments(<<10, 0, 1, 5>>, 8) >>
  /\ CrossingSegments
  /\ Len(built) >= 2
  /\ \/ sample.text = "10.0.0.255" /\ matched
     \/ sample.text = "10.0.1.6" /\ ~matched

(***************************************************************************)
(* Properties of minimizePatternSet step by step (MinimizeSpec).           *)
(***************************************************************************)
\* the patterns of the call as they stand: the rows of the loop joined, or
\* the patterns returned
CurrentPatterns ==
  IF minimizer.pc = "returned" THEN minimized
  ELSE [i \in 1..Len(minimizer.rows) |-> Join(minimizer.rows[i], minimizer.separator)]

\* C21: at the entry of the while loop, after every iteration of the for loop
\* and at the return of minimizePatternSet, the rows match the same addresses
\* of the universe as the patterns the call was given, and they are not more
\* than the distinct patterns given.
MinimizationPreservesLanguage ==
  minimizer.pc \in {"for", "returned"} =>
    /\ Language(CurrentPatterns, IF case.family = "ipv4" THEN "" ELSE "i",
                minimizer.universe) = minimizer.language
    /\ Len(CurrentPatterns) <= Cardinality({ built[i] : i \in 1..Len(built) })

\* minimizePatternSet has returned one row for the three it was given, after
\* merges in two passes and a pass without one, for rows that match a part of
\* the universe
MinimizationReached ==
  /\ minimizer.pc = "returned"
  /\ Len(built) = 3
  /\ Len(minimized) = 1
  /\ minimizer.passes = 3
  /\ minimizer.language # {}
  /\ minimizer.language # minimizer.universe

\* C25: when minimizePatternSet returns for two or more patterns, the rows it
\* returns are pairwise distinct, and no two of them are the same in every
\* segment but one: no group of the for loop would merge them.
MergeFixedPoint ==
  minimizer.pc = "returned" /\ Len(built) >= 2 =>
    /\ minimized = [i \in 1..Len(minimizer.rows) |->
                      Join(minimizer.rows[i], minimizer.separator)]
    /\ \A i, j \in 1..Len(minimizer.rows) :
         i < j =>
           /\ minimizer.rows[i] # minimizer.rows[j]
           /\ Cardinality({ k \in 1..minimizer.segmentCount :
                              minimizer.rows[i][k] # minimizer.rows[j][k] }) # 1

\* minimizePatternSet has returned several rows, fewer than it was given:
\* some have merged and those that remain differ in two segments or more
MergeFixedPointReached ==
  /\ minimizer.pc = "returned"
  /\ Len(minimized) >= 2
  /\ Len(minimized) < Len(built)
  /\ minimizer.passes >= 2

\* the levels the builder descends for the interval of the call, and the
\* levels hexRangeParts descends for a range hextetRangePattern was called with
SegmentLevels ==
  IF case.family = "ipv4"
  THEN segmentDepth(ipv4ToOctets(interval[1]), ipv4ToOctets(interval[2]), 0, 255)
  ELSE segmentDepth(ipv6ToHextets(interval[1]), ipv6ToHextets(interval[2]), 0, 65535)

HexLevels(r) == hexRangeDepth(PadStart(ToHex(r[1]), 4, "0"), PadStart(ToHex(r[2]), 4, "0"))

\* C24: a call that has gone into minimizePatternSet returns or throws in the
\* end; the builder has descended 4 levels at most for IPv4 and 8 for IPv6,
\* hexRangeParts 4 levels at most for every range; a pass of the while loop
\* that has set changed ends with fewer rows than it began with, and the
\* passes are not more than the rows the loop began with.
Termination ==
  /\ [](minimizer.pc # "idle" =>
          /\ SegmentLevels <= minimizer.segmentCount
          /\ \A r \in requested : HexLevels(r) <= 4
          /\ minimizer.pc = "for" /\ minimizer.index = minimizer.segmentCount
               /\ minimizer.changed => Len(minimizer.rows) < minimizer.before
          /\ minimizer.passes <= Cardinality({ built[i] : i \in 1..Len(built) }))
  /\ (minimizer.pc = "for" ~> minimizer.pc \in {"returned", "threw"})

\* an IPv6 call has returned after more than one pass of the while loop, the
\* builder having descended 8 levels and hexRangeParts 4
TerminationReached ==
  /\ minimizer.pc = "returned"
  /\ case.family = "ipv6"
  /\ minimizer.passes >= 2
  /\ SegmentLevels = 8
  /\ \E r \in requested : HexLevels(r) = 4

(***************************************************************************)
(* Properties of the digit-range compilers (DigitSpec).                    *)
(***************************************************************************)
\* the decimal text of an octet value without leading zeros, and the text of
\* a hextet value in four lowercase hex digits, digit by digit
DigitText(family, v) ==
  IF family = "octet"
  THEN (IF v >= 100 THEN Ch("0123456789", (v \div 100) + 1) ELSE "")
       \o (IF v >= 10 THEN Ch("0123456789", ((v \div 10) % 10) + 1) ELSE "")
       \o Ch("0123456789", (v % 10) + 1)
  ELSE Ch("0123456789abcdef", (v \div 4096) + 1) \o Ch("0123456789abcdef", ((v \div 256) % 16) + 1)
       \o Ch("0123456789abcdef", ((v \div 16) % 16) + 1) \o Ch("0123456789abcdef", (v % 16) + 1)

\* C22: the fragment of octetRangePattern(low, high) matches a text exactly
\* when it is the decimal text without leading zeros of a value from low to
\* high, and is the wildcard fragment for 0 to 255 and otherwise the decimal
\* texts of low to high, in a group with | between them where they are several;
\* the fragment of hextetRangePattern(low, high) matches a text exactly when it
\* is the text in four lowercase hex digits of a value from low to high, and
\* is the literal where low = high and the wildcard of four digits for 0 to
\* ffff.
DigitRangeExactness ==
  LET low  == interval[1]
      high == interval[2]
      max  == IF case.family = "octet" THEN 255 ELSE 65535
      value == BigToNumber(sample.value)
  IN  Tested /\ case.family \in {"octet", "hextet"} =>
        /\ matched <=> /\ low <= value /\ value <= high
                       /\ sample.text = DigitText(case.family, value)
        /\ low = 0 /\ high = max =>
             built[1] = IF case.family = "octet" THEN IPV4_ANY_OCTET ELSE IPV6_ANY_HEXTET
        /\ low = high => built[1] = DigitText(case.family, low)
        /\ case.family = "octet" /\ low < high /\ ~(low = 0 /\ high = max) =>
             built[1] = "(?:" \o Join([k \in 1..(high - low + 1) |->
                                         DigitText("octet", low + k - 1)], "|") \o ")"

\* the fragment of 1234 to abcd has matched 9fff, the last value of its
\* middle group, and has not matched ABCD; the fragment of 9 to 100 has
\* matched 10 and has not matched 010
DigitRangeReached ==
  /\ Tested
  /\ \/ /\ case.family = "hextet" /\ interval = <<4660, 43981>>
        /\ \/ sample.text = "9fff" /\ matched
           \/ sample.text = "ABCD" /\ ~matched
     \/ /\ case.family = "octet" /\ interval = <<9, 100>>
        /\ \/ sample.text = "10" /\ matched
           \/ sample.text = "0100" /\ ~matched

(***************************************************************************)
(* Properties of the cache over the calls of a process (CacheSpec).        *)
(***************************************************************************)
\* the keys of the ranges hextetRangePattern has been called with
RequestedKeys == { hextetRangeKey(r[1], r[2]) : r \in requested }

\* C23: after any calls of cidrToRegex, every key of hextetRangeCache is the
\* key of a range hextetRangePattern has been called with, every entry holds
\* what hextetRangePattern computes for its range without the cache, the
\* entries are not more than the ranges asked for so far, and a step neither
\* removes an entry nor changes one.
CacheInvariant ==
  /\ [](/\ DOMAIN hextetRangeCache \subseteq RequestedKeys
        /\ \A r \in requested :
             hextetRangeKey(r[1], r[2]) \in DOMAIN hextetRangeCache =>
               hextetRangeCache[hextetRangeKey(r[1], r[2])] = hextetRangeCompute(r[1], r[2])
        /\ Cardinality(DOMAIN hextetRangeCache) <= Cardinality(requested))
  /\ [][\A key \in DOMAIN hextetRangeCache :
          /\ key \in DOMAIN hextetRangeCache'
          /\ hextetRangeCache'[key] = hextetRangeCache[key]]_vars

\* the cache holds the ranges of 2001:db8::/33 and those of fe80::.../77,
\* after a call for 2001:db8::ff/126 that found 8193-8193 and 3512-3512 in it
\* or has left them in it
CacheInvariantReached ==
  /\ outcome = "returned"
  /\ case.text = "2001:db8::ff/126"
  /\ {"8193-8193", "3512-3512", "1-32766", "65152-65152", "253-254"}
       \subseteq DOMAIN hextetRangeCache
  /\ Cardinality(DOMAIN hextetRangeCache) >= 10

\* C26: a call of cidrToRegex that throws returns no regex and leaves
\* hextetRangeCache as it was before the call, a call that returns for an
\* IPv4 CIDR leaves it as it was too, and the cache changes only in a call
\* that returns for an IPv6 CIDR.
FailureAndIPv4LeaveCache ==
  [][LET parsed == parseCidr(case'.text)
     IN  /\ outcome' = "threw" =>
               hextetRangeCache' = hextetRangeCache /\ regex' = NoRegex
         /\ outcome' = "returned" /\ parsed.family = "ipv4" =>
               hextetRangeCache' = hextetRangeCache
         /\ hextetRangeCache' # hextetRangeCache =>
               outcome' = "returned" /\ parsed.family = "ipv6"]_vars

\* a call has thrown, or has returned for an IPv4 CIDR, in a process whose
\* cache held the ranges of IPv6 calls before it
FailureAndIPv4Reached ==
  /\ Cardinality(DOMAIN hextetRangeCache) >= 6
  /\ \/ outcome = "threw" /\ error = "Invalid CIDR" /\ case.text = "2001:db8::g/64"
     \/ outcome = "returned" /\ case.text = "192.0.2.0/30"

====
